---- MODULE Spec2Model ----
(***************************************************************************)
(* Model of the storage and ingestion kernel of the time-series analytics  *)
(* engine: the in-memory hot store (src/storage/timeseries.go), the warm   *)
(* block files (WarmStorage), the query router of the storage engine       *)
(* (src/storage/storage_engine.go) and the stream processor.               *)
(***************************************************************************)
EXTENDS Integers, Sequences, FiniteSets, TLC

----------------------------------------------------------------------------
(* Bounds of the model *)

MaxTimestamp == 3
MaxSeriesCap == 2
MaxPointsCap == 2
MaxNow == 1
MaxTotalPoints == 5
MaxWarmTimestamp == 2
MaxBlockLen == 2
MaxBlocks == 2
TicksPerMs == 2
MaxBufferSize == 2
MaxBatchSize == 2
MaxIngestCalls == 3
MaxBatchItems == 2
MaxWindowSize == 4
MaxTrainLen == 5
MaxCompactBlocks == 101
MaxGoroutines == 2
MaxForecastData == 2
MaxHorizon == 1
MaxCacheTimeout == 1

SeriesIDs == {"metric1", "metric2", "metric3"}
Timestamps == 0..MaxTimestamp
Values == {1, 2}
Instants == 0..MaxNow
Ages == 0..MaxNow

(* Label maps used as the labels argument and as filters.  NoLabels is the *)
(* nil / empty map.                                                        *)
NoLabels == [k \in {} |-> ""]
LabelMaps ==
    { NoLabels,
      [k \in {"host"} |-> "server1"],
      [k \in {"host"} |-> ""],
      [k \in {"host", "env"} |-> IF k = "host" THEN "server1" ELSE "prod"],
      [k \in {"host", "env"} |-> IF k = "host" THEN "server2" ELSE "prod"] }

VARIABLES
    series,             \* HotStorage.series: id -> Series
    totalPoints,        \* HotStorage.totalPoints
    maxSeries,          \* HotStorage.maxSeries
    maxPointsPerSeries, \* HotStorage.maxPointsPerSeries
    now,                \* the wall clock read by time.Now()
    lastOp,             \* the most recent call, its arguments and its return value
    held,               \* the slice returned by the most recent GetRange, kept by the caller
    disk,               \* the warm data directory: series id -> block file
    files,              \* WarmStorage.files: series id -> WarmFile
    bufferSize,         \* StreamProcessor.bufferSize
    batchSize,          \* StreamProcessor.batchSize
    isRunning,          \* StreamProcessor.isRunning
    dataBuffer,         \* StreamProcessor.dataBuffer
    stopChan,           \* StreamProcessor.stopChan: "open" or "closed"
    stats,              \* StreamProcessor.stats
    procs,              \* the goroutines: where each one is and its local variables
    tickReady,          \* the flush routine's ticker has a tick to deliver
    written,            \* the calls made to StorageWriter.AddPoint, in order
    calls,              \* the number of IngestMetric calls made so far
    panicked,           \* a goroutine panicked: the program is gone
    batchCalls,         \* the IngestBatch call each caller is in, and what is left of it
    detector,           \* an anomaly detector: its kind, threshold, windowSize and values
    adding,             \* the HotStorage.AddPoint call that holds the store lock, if any
    bg,                 \* the engine's background workers and the caller of Stop
    lk,                 \* the locks and the goroutines that take them
    fe                  \* the ForecastEngine: its config, its model and its cache

warmVars == <<disk, files>>

anVars == <<detector>>

hsVars == <<adding>>

wkVars == <<bg, lk, fe>>

spVars == <<bufferSize, batchSize, isRunning, dataBuffer, stopChan, stats, procs,
            tickReady, written, calls, panicked, batchCalls>>

vars == <<series, totalPoints, maxSeries, maxPointsPerSeries, now, lastOp, held,
          warmVars, spVars, anVars, hsVars, wkVars>>

----------------------------------------------------------------------------
(* Go helpers *)

\* sort.Search(n, f): binary search for the smallest index in [0, n) at which
\* f is true, n if there is none.  f is given as a function on 0..n-1.
RECURSIVE SearchLoop(_, _, _)
SearchLoop(i, j, f) ==
    IF i < j
    THEN LET h == (i + j) \div 2
         IN  IF ~f[h] THEN SearchLoop(h + 1, j, f) ELSE SearchLoop(i, h, f)
    ELSE i

SortSearch(n, f) == SearchLoop(0, n, f)

\* m[key] on a Go map[string]string: the zero value "" for a missing key.
MapGet(m, key) == IF key \in DOMAIN m THEN m[key] ELSE ""

RECURSIVE SumOver(_, _)
SumOver(S, f) ==
    IF S = {} THEN 0
    ELSE LET x == CHOOSE y \in S : TRUE
         IN  f[x] + SumOver(S \ {x}, f)

----------------------------------------------------------------------------
(* Series *)

DataPoint(timestamp, value) == [Timestamp |-> timestamp, Value |-> value]

NewSeries(id, labels, clock) ==
    [ID |-> id, Labels |-> labels, Points |-> <<>>, LastSeen |-> clock]

\* Series.AddPoint without the duplicate-timestamp branch.
SeriesAddPointNoDup(s, timestamp, value, clock) ==
    LET n == Len(s.Points)
        pos == SortSearch(n, [i \in 0..(n - 1) |-> s.Points[i + 1].Timestamp > timestamp])
    IN  [s EXCEPT !.Points = SubSeq(s.Points, 1, pos) \o <<DataPoint(timestamp, value)>>
                                 \o SubSeq(s.Points, pos + 1, n),
                  !.LastSeen = clock]

\* Series.AddPoint.  Go index pos-1 is index pos of the 1-based sequence.
SeriesAddPoint(s, timestamp, value, clock) ==
    LET n == Len(s.Points)
        pos == SortSearch(n, [i \in 0..(n - 1) |-> s.Points[i + 1].Timestamp > timestamp])
    IN  IF pos > 0 /\ s.Points[pos].Timestamp = timestamp
        THEN [s EXCEPT !.Points[pos].Value = value]
        ELSE [s EXCEPT !.Points = SubSeq(s.Points, 1, pos) \o <<DataPoint(timestamp, value)>>
                                     \o SubSeq(s.Points, pos + 1, n),
                      !.LastSeen = clock]

Size(s) == Len(s.Points)

----------------------------------------------------------------------------
(* HotStorage *)

\* The series-limit check with a strict comparison.
SeriesLimitExceededStrict(exists, count) == ~exists /\ count > maxSeries

\* The series-limit check applied to ids that are already present too.
SeriesLimitExceededAnyID(exists, count) == count >= maxSeries

\* The series-limit check of HotStorage.AddPoint.
SeriesLimitExceeded(exists, count) == ~exists /\ count >= maxSeries

\* The points-per-series check with a strict comparison.
PointsLimitReachedStrict(size) == size > maxPointsPerSeries

\* The points-per-series check of HotStorage.AddPoint.
PointsLimitReached(size) == size >= maxPointsPerSeries

\* Eviction of the newest point instead of the oldest.
RemoveNewest(points) ==
    IF Len(points) > 0 THEN SubSeq(points, 1, Len(points) - 1) ELSE points

\* series.Points = series.Points[1:] when the series is not empty.
RemoveOldest(points) == IF Len(points) > 0 THEN Tail(points) ELSE points

HasTimestamp(points, timestamp) ==
    \E i \in 1..Len(points) : points[i].Timestamp = timestamp

NoCall == [op |-> "none"]
NoResult == [shared |-> FALSE, pts |-> <<>>]

AddPoint(seriesID, labels, timestamp, value) ==
    LET exists == seriesID \in DOMAIN series
    IN  /\ totalPoints < MaxTotalPoints
        /\ IF SeriesLimitExceeded(exists, Cardinality(DOMAIN series))
           THEN /\ lastOp' = [op |-> "AddPoint", id |-> seriesID, ts |-> timestamp,
                              value |-> value, err |-> TRUE, dup |-> FALSE,
                              atCap |-> FALSE]
                /\ UNCHANGED <<series, totalPoints>>
           ELSE LET s0 == IF exists THEN series[seriesID]
                          ELSE NewSeries(seriesID, labels, now)
                    atCap == PointsLimitReached(Size(s0))
                    s1 == IF atCap THEN [s0 EXCEPT !.Points = RemoveOldest(@)] ELSE s0
                    s2 == SeriesAddPoint(s1, timestamp, value, now)
                IN  /\ series' = [id \in DOMAIN series \cup {seriesID} |->
                                     IF id = seriesID THEN s2 ELSE series[id]]
                    /\ totalPoints' = IF atCap THEN totalPoints ELSE totalPoints + 1
                    /\ lastOp' = [op |-> "AddPoint", id |-> seriesID, ts |-> timestamp,
                                  value |-> value, err |-> FALSE,
                                  dup |-> HasTimestamp(s0.Points, timestamp),
                                  atCap |-> atCap]
        /\ UNCHANGED <<maxSeries, maxPointsPerSeries, now, held>>
        /\ UNCHANGED <<warmVars, spVars, anVars, hsVars, wkVars>>

\* HotStorage.AddPoint step by step.  The store lock is held from the first
\* step to the last; the series lock is taken for the eviction, released,
\* and taken again inside Series.AddPoint.
NoAdding ==
    [active |-> FALSE, id |-> "", ts |-> 0, value |-> 0, dup |-> FALSE, atCap |-> FALSE,
     before |-> <<>>]

\* AddPoint up to the call of series.AddPoint: the series lookup or creation,
\* the depth check, the eviction under the series lock, the counter.
AddPointEvict(seriesID, labels, timestamp, value) ==
    LET exists == seriesID \in DOMAIN series
    IN  /\ ~adding.active
        /\ totalPoints < MaxTotalPoints
        /\ IF SeriesLimitExceeded(exists, Cardinality(DOMAIN series))
           THEN /\ lastOp' = [op |-> "AddPoint", id |-> seriesID, ts |-> timestamp,
                              value |-> value, err |-> TRUE, dup |-> FALSE,
                              atCap |-> FALSE]
                /\ UNCHANGED <<series, totalPoints, adding>>
           ELSE LET s0 == IF exists THEN series[seriesID]
                          ELSE NewSeries(seriesID, labels, now)
                    atCap == PointsLimitReached(Size(s0))
                    s1 == IF atCap THEN [s0 EXCEPT !.Points = RemoveOldest(@)] ELSE s0
                IN  /\ series' = [id \in DOMAIN series \cup {seriesID} |->
                                     IF id = seriesID THEN s1 ELSE series[id]]
                    /\ totalPoints' = IF atCap THEN totalPoints ELSE totalPoints + 1
                    /\ adding' = [active |-> TRUE, id |-> seriesID, ts |-> timestamp,
                                  value |-> value,
                                  dup |-> HasTimestamp(s0.Points, timestamp),
                                  atCap |-> atCap, before |-> s0.Points]
                    /\ lastOp' = NoCall
        /\ UNCHANGED <<maxSeries, maxPointsPerSeries, now, held>>
        /\ UNCHANGED <<warmVars, spVars, anVars, wkVars>>

\* The call of series.AddPoint and the return of HotStorage.AddPoint.
AddPointInsert ==
    /\ adding.active
    /\ series' = [series EXCEPT ![adding.id] =
                     SeriesAddPoint(@, adding.ts, adding.value, now)]
    /\ adding' = NoAdding
    /\ lastOp' = [op |-> "AddPoint", id |-> adding.id, ts |-> adding.ts,
                  value |-> adding.value, err |-> FALSE, dup |-> adding.dup,
                  atCap |-> adding.atCap]
    /\ UNCHANGED <<totalPoints, maxSeries, maxPointsPerSeries, now, held>>
    /\ UNCHANGED <<warmVars, spVars, anVars, wkVars>>

GetTotalPoints == totalPoints
GetSeriesCount == Cardinality(DOMAIN series)

\* The staleness test with a non-strict comparison.
IsStaleNonStrict(s, clock, maxAge) == clock - s.LastSeen >= maxAge

\* The staleness test of HotStorage.CleanupStale.
IsStale(s, clock, maxAge) == clock - s.LastSeen > maxAge

CleanupStale(maxAge) ==
    LET staleIDs == {id \in DOMAIN series : IsStale(series[id], now, maxAge)}
    IN  /\ totalPoints' = totalPoints - SumOver(staleIDs, [id \in staleIDs |-> Size(series[id])])
        /\ series' = [id \in DOMAIN series \ staleIDs |-> series[id]]
        /\ lastOp' = [op |-> "CleanupStale", maxAge |-> maxAge, ret |-> Cardinality(staleIDs)]
        /\ UNCHANGED <<maxSeries, maxPointsPerSeries, now, held>>
        /\ UNCHANGED <<warmVars, spVars, anVars, hsVars, wkVars>>

\* Series.GetRange whose end bound is exclusive.
GetRangeExclusiveEnd(s, start, end) ==
    LET n == Len(s.Points)
        startIdx == SortSearch(n, [i \in 0..(n - 1) |-> s.Points[i + 1].Timestamp >= start])
        endIdx == SortSearch(n, [i \in 0..(n - 1) |-> s.Points[i + 1].Timestamp >= end])
    IN  IF startIdx >= n \/ startIdx >= endIdx
        THEN [shared |-> FALSE, of |-> s.ID, lo |-> 0, hi |-> 0, pts |-> <<>>]
        ELSE [shared |-> FALSE, of |-> s.ID, lo |-> startIdx, hi |-> endIdx,
              pts |-> SubSeq(s.Points, startIdx + 1, endIdx)]

\* Series.GetRange.  The result is a slice value: shared says whether it
\* aliases the series' points (s.Points[lo:hi]) or is a fresh copy (pts).
GetRange(s, start, end) ==
    LET n == Len(s.Points)
        startIdx == SortSearch(n, [i \in 0..(n - 1) |-> s.Points[i + 1].Timestamp >= start])
        endIdx0 == SortSearch(n, [i \in 0..(n - 1) |-> s.Points[i + 1].Timestamp > end])
        endIdx == IF endIdx0 > n THEN n ELSE endIdx0
    IN  IF startIdx >= n \/ startIdx >= endIdx
        THEN [shared |-> FALSE, of |-> s.ID, lo |-> 0, hi |-> 0, pts |-> <<>>]
        ELSE [shared |-> FALSE, of |-> s.ID, lo |-> startIdx, hi |-> endIdx,
              pts |-> SubSeq(s.Points, startIdx + 1, endIdx)]

\* What the caller reads from a slice value in the current state.
Elements(r) ==
    IF r.shared /\ r.of \in DOMAIN series
    THEN LET pts == series[r.of].Points
         IN  SubSeq(pts, r.lo + 1, IF r.hi < Len(pts) THEN r.hi ELSE Len(pts))
    ELSE r.pts

\* A caller holding the series from GetSeries calls GetRange on it.
QueryRange(seriesID, start, end) ==
    /\ seriesID \in DOMAIN series
    /\ held' = GetRange(series[seriesID], start, end)
    /\ lastOp' = [op |-> "GetRange", id |-> seriesID, start |-> start, end |-> end]
    /\ UNCHANGED <<series, totalPoints, maxSeries, maxPointsPerSeries, now>>
    /\ UNCHANGED <<warmVars, spVars, anVars, hsVars, wkVars>>

\* matchesLabels comparing only the keys the series has.
matchesLabelsPresentKeys(seriesLabels, filters) ==
    \A key \in DOMAIN filters \cap DOMAIN seriesLabels : seriesLabels[key] = filters[key]

matchesLabels(seriesLabels, filters) ==
    \A key \in DOMAIN filters : ~(MapGet(seriesLabels, key) # filters[key])

\* The result is kept as the set of ids of the series returned (the order of
\* the returned slice follows the map iteration).
GetSeriesByLabels(labelFilters) ==
    /\ lastOp' = [op |-> "GetSeriesByLabels", filters |-> labelFilters,
                  ret |-> {id \in DOMAIN series :
                              matchesLabels(series[id].Labels, labelFilters)}]
    /\ UNCHANGED <<series, totalPoints, maxSeries, maxPointsPerSeries, now, held>>
    /\ UNCHANGED <<warmVars, spVars, anVars, hsVars, wkVars>>

\* The wall clock advances between calls.
Tick ==
    /\ now < MaxNow
    /\ now' = now + 1
    /\ lastOp' = NoCall
    /\ UNCHANGED <<series, totalPoints, maxSeries, maxPointsPerSeries, held>>
    /\ UNCHANGED <<warmVars, spVars, anVars, hsVars, wkVars>>

----------------------------------------------------------------------------
(* WarmStorage.  Time is counted in ticks, TicksPerMs of them to the       *)
(* millisecond; a block file is the sequence of its blocks, each a 12-byte *)
(* header (timestamp in milliseconds, payload length) and a payload.       *)

HeaderSize == 12
ScanHeaderSize == 24

WarmTimestamps == 0..MaxWarmTimestamp
WarmIDs == {"metric1"}

\* block.StartTime.UnixNano() / 1000000
UnixMilli(t) == t \div TicksPerMs

\* time.Unix(timestamp/1000, (timestamp%1000)*1000000)
TimeFromMilli(ms) == ms * TicksPerMs

\* Sort of a sequence of records by their Timestamp field, records with
\* equal timestamps staying in their order: record i goes to the place
\* after the records that come before it.
SortByTimestamp(seq) ==
    LET n == Len(seq)
        place == [i \in 1..n |->
                     1 + Cardinality({j \in 1..n :
                            \/ seq[j].Timestamp < seq[i].Timestamp
                            \/ seq[j].Timestamp = seq[i].Timestamp /\ j < i})]
    IN  [k \in 1..n |-> seq[CHOOSE i \in 1..n : place[i] = k]]

\* json.Marshal of a WarmDataBlock: the fields under their JSON names.
MarshalBlock(block) ==
    [series_id |-> block.SeriesID, labels |-> block.Labels,
     start_time |-> block.StartTime, end_time |-> block.EndTime,
     count |-> block.Count, points |-> block.Points]

\* json.Unmarshal into a WarmDataBlock.
UnmarshalBlock(json) ==
    [SeriesID |-> json.series_id, Labels |-> json.labels,
     StartTime |-> json.start_time, EndTime |-> json.end_time,
     Count |-> json.count, Points |-> json.points]

\* Length of the gzip stream of a marshalled block: the gzip header and
\* trailer and a body that grows with the block.
CompressedLen(json) == 20 + Len(json.points)

\* Byte position in the file at which block k starts.
RECURSIVE BlockPos(_, _)
BlockPos(blocks, k) ==
    IF k <= 1 THEN 0
    ELSE BlockPos(blocks, k - 1) + HeaderSize + blocks[k - 1].length

FileBytes(blocks) == BlockPos(blocks, Len(blocks) + 1)

NewWarmFile(seriesID, clock) ==
    [SeriesID |-> seriesID, FileSize |-> 0, LastModified |-> clock, IndexEntries |-> <<>>]

IndexEntry(timestamp, offset, length) ==
    [Timestamp |-> timestamp, Offset |-> offset, Length |-> length]

\* WarmStorage.getOrCreateFile
GetOrCreateFile(seriesID) ==
    IF seriesID \in DOMAIN files THEN files[seriesID] ELSE NewWarmFile(seriesID, now)

\* WarmStorage.writeDataBlock: the WarmFile after the write.
WriteDataBlockFile(warmFile, block, clock) ==
    LET dataLength == CompressedLen(MarshalBlock(block))
        offset == warmFile.FileSize
    IN  [warmFile EXCEPT
            !.FileSize = @ + (8 + 4 + dataLength),
            !.LastModified = clock,
            !.IndexEntries = SortByTimestamp(
                Append(@, IndexEntry(block.StartTime, offset, dataLength)))]

\* WarmStorage.writeDataBlock: the bytes appended to the file.
WriteDataBlockBytes(block) ==
    [timestamp |-> UnixMilli(block.StartTime),
     length |-> CompressedLen(MarshalBlock(block)),
     payload |-> MarshalBlock(block)]

DiskBlocks(seriesID) ==
    IF seriesID \in DOMAIN disk THEN disk[seriesID].blocks ELSE <<>>

\* The WarmDataBlock built by WriteSeriesData from a non-empty point list.
WarmBlock(seriesID, labels, points) ==
    [SeriesID |-> seriesID, Labels |-> labels,
     StartTime |-> points[1].Timestamp, EndTime |-> points[Len(points)].Timestamp,
     Count |-> Len(points), Points |-> points]

\* WarmStorage.WriteSeriesData on a file that holds fewer than limit blocks.
WriteSeriesDataUpTo(limit, seriesID, labels, points) ==
    /\ Len(DiskBlocks(seriesID)) < limit
    /\ IF Len(points) = 0
       THEN UNCHANGED warmVars
       ELSE LET warmFile == GetOrCreateFile(seriesID)
                block == WarmBlock(seriesID, labels, points)
            IN  /\ files' = [id \in DOMAIN files \cup {seriesID} |->
                                IF id = seriesID
                                THEN WriteDataBlockFile(warmFile, block, now)
                                ELSE files[id]]
                /\ disk' = [id \in DOMAIN disk \cup {seriesID} |->
                               IF id = seriesID
                               THEN [blocks |-> Append(DiskBlocks(seriesID),
                                                       WriteDataBlockBytes(block)),
                                     modTime |-> now]
                               ELSE disk[id]]
    /\ lastOp' = [op |-> "WriteSeriesData", id |-> seriesID, points |-> points]
    /\ UNCHANGED <<series, totalPoints, maxSeries, maxPointsPerSeries, now, held, spVars, anVars, hsVars, wkVars>>

WriteSeriesData(seriesID, labels, points) ==
    WriteSeriesDataUpTo(MaxBlocks, seriesID, labels, points)

\* WarmStorage.readDataBlock: the bytes at entry.Offset+12 .. +entry.Length
\* decode to a block only if they are the payload of a block of the file.
ReadDataBlock(blocks, entry) ==
    LET at == {k \in 1..Len(blocks) :
                  BlockPos(blocks, k) = entry.Offset /\ blocks[k].length = entry.Length}
    IN  IF at = {}
        THEN [err |-> TRUE, block |-> <<>>]
        ELSE [err |-> FALSE, block |-> UnmarshalBlock(blocks[CHOOSE k \in at : TRUE].payload)]

\* The filter of readDataRange with an exclusive end.
InWindowExclusive(point, start, end) ==
    /\ (point.Timestamp = start \/ point.Timestamp > start)
    /\ point.Timestamp < end

\* The filter of readDataRange.
InWindowInclusive(point, start, end) ==
    /\ (point.Timestamp = start \/ point.Timestamp > start)
    /\ (point.Timestamp = end \/ point.Timestamp < end)

FilterBlock(points, start, end) ==
    SelectSeq(points, LAMBDA p : InWindowInclusive(p, start, end))

\* The loop of readDataRange from index entry i on, with the points
\* collected so far.
RECURSIVE ReadEntries(_, _, _, _, _, _)
ReadEntries(entries, blocks, i, start, end, acc) ==
    IF i > Len(entries) \/ entries[i].Timestamp > end
    THEN [err |-> FALSE, pts |-> acc]
    ELSE IF entries[i].Timestamp < start
    THEN ReadEntries(entries, blocks, i + 1, start, end, acc)
    ELSE LET r == ReadDataBlock(blocks, entries[i])
         IN  IF r.err
             THEN [err |-> TRUE, pts |-> <<>>]
             ELSE ReadEntries(entries, blocks, i + 1, start, end,
                              acc \o FilterBlock(r.block.Points, start, end))

\* WarmStorage.readDataRange
ReadDataRange(warmFile, blocks, start, end) ==
    LET r == ReadEntries(warmFile.IndexEntries, blocks, 1, start, end, <<>>)
    IN  IF r.err THEN r ELSE [err |-> FALSE, pts |-> SortByTimestamp(r.pts)]

\* WarmStorage.ReadSeriesRange
ReadSeriesRange(seriesID, start, end) ==
    IF seriesID \notin DOMAIN files
    THEN [err |-> FALSE, pts |-> <<>>]
    ELSE ReadDataRange(files[seriesID], DiskBlocks(seriesID), start, end)

\* The offset loadIndexEntries records for block k.
RECURSIVE ScanOffset(_, _)
ScanOffset(blocks, k) ==
    IF k <= 1 THEN 0
    ELSE ScanOffset(blocks, k - 1) + blocks[k - 1].length + ScanHeaderSize

\* WarmStorage.loadIndexEntries
LoadIndexEntries(blocks) ==
    SortByTimestamp([k \in 1..Len(blocks) |->
        IndexEntry(TimeFromMilli(blocks[k].timestamp), ScanOffset(blocks, k),
                   blocks[k].length)])

\* WarmStorage.loadFile
LoadFile(seriesID) ==
    [SeriesID |-> seriesID, FileSize |-> FileBytes(disk[seriesID].blocks),
     LastModified |-> disk[seriesID].modTime,
     IndexEntries |-> LoadIndexEntries(disk[seriesID].blocks)]

\* Close followed by NewWarmStorage over the same directory.
Reopen ==
    /\ files' = [id \in DOMAIN disk |-> LoadFile(id)]
    /\ lastOp' = [op |-> "Reopen"]
    /\ UNCHANGED <<series, totalPoints, maxSeries, maxPointsPerSeries, now, held, disk, spVars, anVars, hsVars, wkVars>>

\* A crash during writeDataBlock left the first `have` bytes of a block at
\* the end of the series' file.
IsTorn(seriesID) == seriesID \in DOMAIN disk /\ "torn" \in DOMAIN disk[seriesID]

\* The process dies while writeDataBlock is writing a block of the series:
\* `have` bytes of the header and payload reached the file, the WarmStorage
\* object is gone.
TornWrite(seriesID, labels, points, have) ==
    LET bytes == WriteDataBlockBytes(WarmBlock(seriesID, labels, points))
    IN  /\ Len(points) > 0
        /\ ~IsTorn(seriesID)
        /\ DOMAIN files = DOMAIN disk
        /\ Len(DiskBlocks(seriesID)) < MaxBlocks
        /\ have \in 1..(HeaderSize + bytes.length - 1)
        /\ disk' = [id \in DOMAIN disk \cup {seriesID} |->
                       IF id = seriesID
                       THEN [blocks |-> DiskBlocks(seriesID), modTime |-> now,
                             torn |-> [have |-> have, timestamp |-> bytes.timestamp,
                                       length |-> bytes.length]]
                       ELSE disk[id]]
        /\ files' = [id \in {} |-> NewWarmFile(id, 0)]
        /\ lastOp' = [op |-> "Crash", id |-> seriesID, have |-> have]
        /\ UNCHANGED <<series, totalPoints, maxSeries, maxPointsPerSeries, now, held>>
        /\ UNCHANGED <<spVars, anVars, hsVars, wkVars>>

\* What the loop of loadIndexEntries meets after the last complete block when
\* `have` bytes of another block follow.  readBlockHeader reads 8 bytes and
\* then 4 with binary.Read: io.EOF when no byte is left, an unexpected-EOF
\* error when some but not all are there; after a whole header,
\* reader.Discard fails on a short payload.
ScanTorn(torn) ==
    IF torn.have < 8 THEN "error"
    ELSE IF torn.have = 8 THEN "eof"
    ELSE IF torn.have < HeaderSize THEN "error"
    ELSE IF torn.have - HeaderSize < torn.length THEN "error"
    ELSE "block"

\* WarmStorage.loadFile on a file that may end in a partial block.
LoadFileScan(seriesID) ==
    IF ~IsTorn(seriesID) THEN [err |-> FALSE, file |-> LoadFile(seriesID)]
    ELSE IF ScanTorn(disk[seriesID].torn) = "error"
    THEN [err |-> TRUE, file |-> NewWarmFile(seriesID, 0)]
    ELSE [err |-> FALSE,
          file |-> [LoadFile(seriesID) EXCEPT !.FileSize = @ + disk[seriesID].torn.have]]

\* NewWarmStorage: loadExistingFiles keeps the files that load and skips the
\* others with a warning.
LoadExistingFiles ==
    LET loaded == {id \in DOMAIN disk : ~LoadFileScan(id).err}
    IN  /\ files' = [id \in loaded |-> LoadFileScan(id).file]
        /\ lastOp' = [op |-> "LoadExistingFiles", loaded |-> loaded]
        /\ UNCHANGED <<series, totalPoints, maxSeries, maxPointsPerSeries, now, held, disk>>
        /\ UNCHANGED <<spVars, anVars, hsVars, wkVars>>

CompactionThreshold == 100

\* WarmStorage.needsCompaction
NeedsCompaction(warmFile) == Len(warmFile.IndexEntries) > CompactionThreshold

\* WarmStorage.compactFile returns nil without touching the file.
CompactFile(warmFile) == warmFile

\* WarmStorage.Compact: compactFile on every file that needs compaction.
Compact ==
    LET filesToCompact == {id \in DOMAIN files : NeedsCompaction(files[id])}
    IN  /\ files' = [id \in DOMAIN files |->
                        IF id \in filesToCompact THEN CompactFile(files[id]) ELSE files[id]]
        /\ lastOp' = [op |-> "Compact", compacted |-> filesToCompact, err |-> FALSE]
        /\ UNCHANGED <<series, totalPoints, maxSeries, maxPointsPerSeries, now, held, disk>>
        /\ UNCHANGED <<spVars, anVars, hsVars, wkVars>>

\* The selection of CleanupExpired with a non-strict comparison.
ExpiredFilesNonStrict(retention) ==
    {id \in DOMAIN files : files[id].LastModified <= now - retention}

\* The files CleanupExpired selects: LastModified.Before(now - retentionPeriod).
ExpiredFiles(retention) == {id \in DOMAIN files : files[id].LastModified < now - retention}

\* WarmStorage.CleanupExpired with retentionPeriod = retention: each expired
\* file is removed from the directory and from the series-to-file mapping.
CleanupExpired(retention) ==
    LET expired == ExpiredFiles(retention)
    IN  /\ files' = [id \in DOMAIN files \ expired |-> files[id]]
        /\ disk' = [id \in DOMAIN disk \ expired |-> disk[id]]
        /\ lastOp' = [op |-> "CleanupExpired", retention |-> retention,
                      ret |-> Cardinality(expired), err |-> FALSE]
        /\ UNCHANGED <<series, totalPoints, maxSeries, maxPointsPerSeries, now, held>>
        /\ UNCHANGED <<spVars, anVars, hsVars, wkVars>>

----------------------------------------------------------------------------
(* StorageEngine: the hot store in front of the warm store. *)

\* Series.GetLatest
GetLatest(s, count) ==
    IF count <= 0 \/ Len(s.Points) = 0 THEN <<>>
    ELSE LET start == IF Len(s.Points) - count < 0 THEN 0 ELSE Len(s.Points) - count
         IN  SubSeq(s.Points, start + 1, Len(s.Points))

\* What a goroutine holding the series reads with Size, GetLatest(1) and
\* GetRange over a window.
ReadSeries(s, start, end) ==
    [Size |-> Size(s), Latest |-> GetLatest(s, 1), Range |-> GetRange(s, start, end).pts]

\* A goroutine that got the series from GetSeries earlier reads it; it needs
\* the series lock only, which no step of AddPoint holds between steps.
HandleRead(seriesID, start, end) ==
    /\ seriesID \in DOMAIN series
    /\ held' = GetRange(series[seriesID], start, end)
    /\ lastOp' = [op |-> "Read", id |-> seriesID, start |-> start, end |-> end,
                  during |-> adding.active /\ adding.id = seriesID,
                  saw |-> ReadSeries(series[seriesID], start, end),
                  before |-> ReadSeries([series[seriesID] EXCEPT !.Points = adding.before],
                                        start, end),
                  after |-> ReadSeries(SeriesAddPoint(series[seriesID], adding.ts,
                                                      adding.value, now), start, end)]
    /\ UNCHANGED <<series, totalPoints, maxSeries, maxPointsPerSeries, now, adding>>
    /\ UNCHANGED <<warmVars, spVars, anVars, wkVars>>

\* The selection of performTiering with a non-strict comparison.
ShouldTierNonStrict(s, clock, retention) == s.LastSeen <= clock - retention /\ Size(s) > 0

\* The selection of performTiering: series.LastSeen.Before(cutoffTime) and
\* a non-empty series.
ShouldTier(s, clock, retention) == s.LastSeen < clock - retention /\ Size(s) > 0

\* StorageEngine.performTiering with config.Hot.RetentionPeriod = retention.
\* Each selected series is written to its own file; nothing leaves the hot store.
performTiering(retention) ==
    LET toTier == {id \in DOMAIN series : ShouldTier(series[id], now, retention)}
        block(id) == WarmBlock(id, series[id].Labels, GetLatest(series[id], Size(series[id])))
    IN  /\ \A id \in toTier : Len(DiskBlocks(id)) < MaxBlocks
        /\ files' = [id \in DOMAIN files \cup toTier |->
                        IF id \in toTier
                        THEN WriteDataBlockFile(GetOrCreateFile(id), block(id), now)
                        ELSE files[id]]
        /\ disk' = [id \in DOMAIN disk \cup toTier |->
                       IF id \in toTier
                       THEN [blocks |-> Append(DiskBlocks(id), WriteDataBlockBytes(block(id))),
                             modTime |-> now]
                       ELSE disk[id]]
        /\ lastOp' = [op |-> "performTiering", retention |-> retention, tiered |-> toTier]
        /\ UNCHANGED <<series, totalPoints, maxSeries, maxPointsPerSeries, now, held, spVars, anVars, hsVars>>

\* StorageEngine.TriggerTiering with tiering enabled: one pass made by the caller.
PerformTiering(retention) == performTiering(retention) /\ UNCHANGED wkVars

\* The elements of a finite set of integers in ascending order.
RECURSIVE AscendingSeq(_)
AscendingSeq(S) ==
    IF S = {} THEN <<>>
    ELSE LET m == CHOOSE x \in S : \A y \in S : x <= y
         IN  <<m>> \o AscendingSeq(S \ {m})

\* The index of the last point of the slice with the given timestamp:
\* pointMap[timestamp] = point keeps the last one assigned.
LastAt(points, timestamp) ==
    CHOOSE i \in 1..Len(points) :
        /\ points[i].Timestamp = timestamp
        /\ \A j \in (i + 1)..Len(points) : points[j].Timestamp # timestamp

\* A merge that orders the points and keeps every one of them.
mergeSortedPointsKeepAll(points) == SortByTimestamp(points)

\* mergeSortedPoints: one point per timestamp, ascending.
mergeSortedPoints(points) ==
    IF Len(points) <= 1 THEN points
    ELSE LET stamps == {points[i].Timestamp : i \in 1..Len(points)}
             ordered == AscendingSeq(stamps)
         IN  [k \in 1..Len(ordered) |-> points[LastAt(points, ordered[k])]]

\* The hot part of StorageEngine.GetRange.
HotRange(seriesID, start, end) ==
    IF seriesID \in DOMAIN series
    THEN Elements(GetRange(series[seriesID], start, end))
    ELSE <<>>

\* StorageEngine.GetRange lines 141-160: the hot points and the result of
\* the warm read put together.
MergeTiers(hotPoints, warm) ==
    LET allPoints == hotPoints \o warm.pts
    IN  IF warm.err THEN [err |-> TRUE, pts |-> <<>>]
        ELSE [err |-> FALSE,
              pts |-> IF Len(allPoints) > 1 THEN mergeSortedPoints(allPoints) ELSE allPoints]

\* StorageEngine.GetRange with warm storage enabled.
EngineGetRange(seriesID, start, end) ==
    MergeTiers(HotRange(seriesID, start, end), ReadSeriesRange(seriesID, start, end))

\* StorageEngine.Stop followed by NewStorageEngine with the same
\* configuration: the hot store starts empty and the warm store scans its
\* directory.
EngineRestart ==
    /\ series' = [id \in {} |-> NewSeries(id, NoLabels, 0)]
    /\ totalPoints' = 0
    /\ files' = [id \in DOMAIN disk |-> LoadFile(id)]
    /\ lastOp' = [op |-> "Restart"]
    /\ UNCHANGED <<maxSeries, maxPointsPerSeries, now, held, disk, spVars, anVars, hsVars, wkVars>>

\* StorageEngine.performCleanup: HotStorage.CleanupStale with the hot
\* retention period, then WarmStorage.CleanupExpired with the warm one.
performCleanup(hotRetention, warmRetention) ==
    LET staleIDs == {id \in DOMAIN series : IsStale(series[id], now, hotRetention)}
        expired == ExpiredFiles(warmRetention)
    IN  /\ totalPoints' = totalPoints - SumOver(staleIDs, [id \in staleIDs |-> Size(series[id])])
        /\ series' = [id \in DOMAIN series \ staleIDs |-> series[id]]
        /\ files' = [id \in DOMAIN files \ expired |-> files[id]]
        /\ disk' = [id \in DOMAIN disk \ expired |-> disk[id]]
        /\ lastOp' = [op |-> "performCleanup", hotRetention |-> hotRetention,
                      warmRetention |-> warmRetention,
                      hotCleaned |-> Cardinality(staleIDs),
                      warmCleaned |-> Cardinality(expired)]
        /\ UNCHANGED <<maxSeries, maxPointsPerSeries, now, held, spVars, anVars, hsVars>>

\* StorageEngine.TriggerCleanup: one pass made by the caller.
PerformCleanup(hotRetention, warmRetention) ==
    performCleanup(hotRetention, warmRetention) /\ UNCHANGED wkVars

----------------------------------------------------------------------------
(* The background workers of the StorageEngine.  Each worker is a goroutine *)
(* that selects between its stop channel and its ticker; time is not        *)
(* measured, so a tick may be ready whenever the goroutine selects.         *)

NoWorker == [stopChan |-> "open", wg |-> 0, pc |-> "none"]

\* NewStorageEngine: both workers are built and none runs; tieringEnabled is
\* config.Warm.Enabled.
NewStorageEngine(enabled) ==
    [tieringEnabled |-> enabled, started |-> FALSE,
     tieringWorker |-> NoWorker, cleanupWorker |-> NoWorker, stop |-> "idle"]

NoWorkers == NewStorageEngine(TRUE)

WorkerNames == {"tieringWorker", "cleanupWorker"}

\* TieringWorker.Start and CleanupWorker.Start: wg.Add(1) and go run().
WorkerStart(worker) == [worker EXCEPT !.wg = @ + 1, !.pc = "select"]

\* StorageEngine.Start, called once on an engine that was not stopped.
EngineStart ==
    /\ ~bg.started
    /\ bg.stop = "idle"
    /\ bg' = [bg EXCEPT !.started = TRUE,
                        !.tieringWorker = IF bg.tieringEnabled THEN WorkerStart(@) ELSE @,
                        !.cleanupWorker = WorkerStart(@)]
    /\ lastOp' = [op |-> "Start"]
    /\ UNCHANGED <<series, totalPoints, maxSeries, maxPointsPerSeries, now, held>>
    /\ UNCHANGED <<warmVars, spVars, anVars, hsVars, lk, fe>>

\* run: the select takes the ticker case.
WorkerTick(name) ==
    /\ bg[name].pc = "select"
    /\ bg' = [bg EXCEPT ![name].pc = "pass"]
    /\ lastOp' = NoCall
    /\ UNCHANGED <<series, totalPoints, maxSeries, maxPointsPerSeries, now, held>>
    /\ UNCHANGED <<warmVars, spVars, anVars, hsVars, lk, fe>>

\* run: the select takes the stop case; the deferred wg.Done() runs.
WorkerExit(name) ==
    /\ bg[name].pc = "select"
    /\ bg[name].stopChan = "closed"
    /\ bg' = [bg EXCEPT ![name].pc = "done", ![name].wg = @ - 1]
    /\ lastOp' = NoCall
    /\ UNCHANGED <<series, totalPoints, maxSeries, maxPointsPerSeries, now, held>>
    /\ UNCHANGED <<warmVars, spVars, anVars, hsVars, lk, fe>>

\* TieringWorker.run: the pass of one tick returns nil.
TieringWorkerPass ==
    /\ bg.tieringWorker.pc = "pass"
    /\ \E retention \in Ages : performTiering(retention)
    /\ bg' = [bg EXCEPT !.tieringWorker.pc = "select"]
    /\ UNCHANGED <<lk, fe>>

\* TieringWorker.run: the first write of the pass fails; the error is printed.
TieringWorkerPassFails ==
    /\ bg.tieringWorker.pc = "pass"
    /\ \E retention \in Ages :
          /\ \E id \in DOMAIN series : ShouldTier(series[id], now, retention)
          /\ lastOp' = [op |-> "performTiering", retention |-> retention, tiered |-> {},
                        err |-> TRUE, printed |-> "Tiering error"]
    /\ bg' = [bg EXCEPT !.tieringWorker.pc = "select"]
    /\ UNCHANGED <<series, totalPoints, maxSeries, maxPointsPerSeries, now, held>>
    /\ UNCHANGED <<warmVars, spVars, anVars, hsVars, lk, fe>>

\* CleanupWorker.run: the pass of one tick returns nil.
CleanupWorkerPass ==
    /\ bg.cleanupWorker.pc = "pass"
    /\ \E hotRetention \in Ages, warmRetention \in Ages :
          performCleanup(hotRetention, warmRetention)
    /\ bg' = [bg EXCEPT !.cleanupWorker.pc = "select"]
    /\ UNCHANGED <<lk, fe>>

\* CleanupWorker.run: CleanupStale ran and the first removal of CleanupExpired
\* fails; the error is printed.
CleanupWorkerPassFails ==
    /\ bg.cleanupWorker.pc = "pass"
    /\ \E hotRetention \in Ages, warmRetention \in Ages :
          LET staleIDs == {id \in DOMAIN series : IsStale(series[id], now, hotRetention)}
          IN  /\ ExpiredFiles(warmRetention) # {}
              /\ totalPoints' = totalPoints
                     - SumOver(staleIDs, [id \in staleIDs |-> Size(series[id])])
              /\ series' = [id \in DOMAIN series \ staleIDs |-> series[id]]
              /\ lastOp' = [op |-> "performCleanup", hotRetention |-> hotRetention,
                            warmRetention |-> warmRetention,
                            hotCleaned |-> Cardinality(staleIDs), warmCleaned |-> 0,
                            err |-> TRUE, printed |-> "Cleanup error"]
    /\ bg' = [bg EXCEPT !.cleanupWorker.pc = "select"]
    /\ UNCHANGED <<maxSeries, maxPointsPerSeries, now, held>>
    /\ UNCHANGED <<warmVars, spVars, anVars, hsVars, lk, fe>>

\* wg.Wait() without the wait.
WaitGroupDoneAlready(worker) == TRUE

\* wg.Wait() returns when the counter is zero.
WaitGroupDone(worker) == worker.wg = 0

\* StorageEngine.Stop, called once: TieringWorker.Stop closes the stop channel
EngineStopCloseTiering ==
    /\ bg.stop = "idle"
    /\ bg.tieringEnabled
    /\ bg' = [bg EXCEPT !.tieringWorker.stopChan = "closed", !.stop = "waitTiering"]
    /\ lastOp' = NoCall
    /\ UNCHANGED <<series, totalPoints, maxSeries, maxPointsPerSeries, now, held>>
    /\ UNCHANGED <<warmVars, spVars, anVars, hsVars, lk, fe>>

\* and waits for the goroutine.
EngineStopWaitTiering ==
    /\ bg.stop = "waitTiering"
    /\ WaitGroupDone(bg.tieringWorker)
    /\ bg' = [bg EXCEPT !.stop = "cleanup"]
    /\ lastOp' = NoCall
    /\ UNCHANGED <<series, totalPoints, maxSeries, maxPointsPerSeries, now, held>>
    /\ UNCHANGED <<warmVars, spVars, anVars, hsVars, lk, fe>>

\* CleanupWorker.Stop closes the stop channel
EngineStopCloseCleanup ==
    /\ \/ bg.stop = "cleanup"
       \/ bg.stop = "idle" /\ ~bg.tieringEnabled
    /\ bg' = [bg EXCEPT !.cleanupWorker.stopChan = "closed", !.stop = "waitCleanup"]
    /\ lastOp' = NoCall
    /\ UNCHANGED <<series, totalPoints, maxSeries, maxPointsPerSeries, now, held>>
    /\ UNCHANGED <<warmVars, spVars, anVars, hsVars, lk, fe>>

\* and waits for the goroutine; WarmStorage.Close closes the file handles
\* and Stop returns nil.
EngineStopReturn ==
    /\ bg.stop = "waitCleanup"
    /\ WaitGroupDone(bg.cleanupWorker)
    /\ bg' = [bg EXCEPT !.stop = "returned"]
    /\ lastOp' = [op |-> "Stop", err |-> FALSE]
    /\ UNCHANGED <<series, totalPoints, maxSeries, maxPointsPerSeries, now, held>>
    /\ UNCHANGED <<warmVars, spVars, anVars, hsVars, lk, fe>>

----------------------------------------------------------------------------
(* Locks.  A goroutine runs one operation at a time; of the operation only *)
(* its lock and unlock calls are kept, in program order.  A sync.RWMutex    *)
(* admits readers while no writer holds it or has announced itself; a      *)
(* writer that finds no reader takes the lock at once; one that finds      *)
(* readers announces itself, which stops new readers, and takes the lock    *)
(* when the readers that hold it have left.  bufferMutex is a sync.Mutex    *)
(* and has no readers.                                                      *)

LockGoroutines == 1..MaxGoroutines

LockNames == {"se.mu", "hs.mu", "series.mu", "ws.mu", "warmFile.mu", "bufferMutex", "stats.mu"}

FreeLock == [writer |-> {}, readers |-> {}, pending |-> {}]

NoLocks == [mu |-> [m \in LockNames |-> FreeLock], at |-> [g \in LockGoroutines |-> <<>>]]

Lock(m) == <<"Lock", m>>
Unlock(m) == <<"Unlock", m>>
RLock(m) == <<"RLock", m>>
RUnlock(m) == <<"RUnlock", m>>

\* Series.Size, Series.GetLatest, Series.GetRange
SeriesRead == <<RLock("series.mu"), RUnlock("series.mu")>>

\* Series.AddPoint
SeriesWrite == <<Lock("series.mu"), Unlock("series.mu")>>

\* The operations of HotStorage.
HotStoragePrograms ==
    [AddPoint |-> <<Lock("hs.mu")>> \o SeriesRead \o SeriesWrite \o <<Unlock("hs.mu")>>,
     AddPointAtCap |-> <<Lock("hs.mu")>> \o SeriesRead \o SeriesWrite \o SeriesWrite
                          \o <<Unlock("hs.mu")>>,
     AddPointRefused |-> <<Lock("hs.mu"), Unlock("hs.mu")>>,
     GetSeries |-> <<RLock("hs.mu"), RUnlock("hs.mu")>>,
     GetSeriesByLabels |-> <<RLock("hs.mu"), RUnlock("hs.mu")>>,
     CleanupStale |-> <<Lock("hs.mu")>> \o SeriesRead \o <<Unlock("hs.mu")>>,
     SeriesRead |-> SeriesRead]

\* The operations of WarmStorage with the file lock taken before the store lock
\* in CleanupExpired.
WarmStorageProgramsInverted ==
    [WriteSeriesData |-> <<Lock("ws.mu"), Lock("warmFile.mu"), Unlock("warmFile.mu"),
                           Unlock("ws.mu")>>,
     ReadSeriesRange |-> <<RLock("ws.mu"), RUnlock("ws.mu"),
                           RLock("warmFile.mu"), RUnlock("warmFile.mu")>>,
     GetSeriesInfo |-> <<RLock("ws.mu"), RLock("warmFile.mu"), RUnlock("warmFile.mu"),
                         RUnlock("ws.mu")>>,
     CleanupExpired |-> <<RLock("warmFile.mu"), Lock("ws.mu"), Unlock("ws.mu"),
                          RUnlock("warmFile.mu")>>]

\* The operations of WarmStorage.
WarmStoragePrograms ==
    [WriteSeriesData |-> <<Lock("ws.mu"), Lock("warmFile.mu"), Unlock("warmFile.mu"),
                           Unlock("ws.mu")>>,
     ReadSeriesRange |-> <<RLock("ws.mu"), RUnlock("ws.mu"),
                           RLock("warmFile.mu"), RUnlock("warmFile.mu")>>,
     GetSeriesInfo |-> <<RLock("ws.mu"), RLock("warmFile.mu"), RUnlock("warmFile.mu"),
                         RUnlock("ws.mu")>>,
     CleanupExpired |-> <<Lock("ws.mu"), RLock("warmFile.mu"), RUnlock("warmFile.mu"),
                          Unlock("ws.mu")>>]

\* StorageEngine.performTiering on one stale series: the selection reads the
\* store and the size of the series, the copy reads the series twice more and
\* writes to the warm store.
EnginePrograms ==
    [performTiering |->
        <<Lock("se.mu")>> \o HotStoragePrograms.GetSeriesByLabels
            \o SeriesRead \o SeriesRead \o SeriesRead
            \o WarmStoragePrograms.WriteSeriesData \o <<Unlock("se.mu")>>,
     performTieringNothingStale |->
        <<Lock("se.mu")>> \o HotStoragePrograms.GetSeriesByLabels
            \o SeriesRead \o <<Unlock("se.mu")>>]

IncrementCount == <<Lock("stats.mu"), Unlock("stats.mu")>>

\* StreamProcessor.flushBuffer of one buffered metric: the buffer is taken
\* under the buffer lock, the metric goes to the store and is counted.
FlushBufferLocks ==
    <<Lock("bufferMutex"), Unlock("bufferMutex")>>
        \o HotStoragePrograms.AddPoint \o IncrementCount \o IncrementCount

\* The operations of the StreamProcessor.  An IngestMetric that flushes gives
\* up the buffer lock, calls flushBuffer and takes the buffer lock again: it
\* holds no lock between these parts, and each part is a program of its own.
\* IngestMetricRelocked is the part that only takes the buffer lock, before a
\* flush on a full buffer or after a flush on a full batch.
StreamProcessorPrograms ==
    [IngestMetric |-> <<Lock("bufferMutex")>> \o IncrementCount \o <<Unlock("bufferMutex")>>,
     IngestMetricRelocked |-> <<Lock("bufferMutex"), Unlock("bufferMutex")>>,
     IngestMetricInvalid |-> IncrementCount,
     flushBuffer |-> FlushBufferLocks,
     flushBufferEmpty |-> <<Lock("bufferMutex"), Unlock("bufferMutex")>>]

Range(f) == {f[x] : x \in DOMAIN f}

Programs ==
    Range(HotStoragePrograms) \cup Range(WarmStoragePrograms)
        \cup Range(EnginePrograms) \cup Range(StreamProcessorPrograms)

\* The locks a goroutine holds, for writing or for reading.
Holds(g) == {m \in LockNames : g \in lk.mu[m].writer \/ g \in lk.mu[m].readers}

\* A goroutine at rest starts an operation.
GoCall(g) ==
    /\ lk.at[g] = <<>>
    /\ \E program \in Programs : lk' = [lk EXCEPT !.at[g] = program]
    /\ lastOp' = NoCall
    /\ UNCHANGED <<series, totalPoints, maxSeries, maxPointsPerSeries, now, held>>
    /\ UNCHANGED <<warmVars, spVars, anVars, hsVars, bg, fe>>

\* What the lock call at the head of a goroutine's program does to the lock,
\* when the call can proceed.
CanProceed(g) ==
    /\ lk.at[g] # <<>>
    /\ LET call == Head(lk.at[g])
           mu == lk.mu[call[2]]
       IN  CASE call[1] = "RLock" -> mu.writer = {} /\ mu.pending = {}
             [] call[1] = "Lock" ->
                   IF g \in mu.pending THEN mu.readers = {}
                   ELSE mu.writer = {} /\ mu.pending = {}
             [] OTHER -> TRUE

\* One goroutine makes the lock call at the head of its program.  Lock with
\* readers inside announces the writer and takes the lock in a second step.
GoStep(g) ==
    /\ CanProceed(g)
    /\ LET call == Head(lk.at[g])
           m == call[2]
           mu == lk.mu[m]
       IN  CASE call[1] = "RLock" ->
                   lk' = [lk EXCEPT !.mu[m].readers = @ \cup {g}, !.at[g] = Tail(@)]
             [] call[1] = "RUnlock" ->
                   lk' = [lk EXCEPT !.mu[m].readers = @ \ {g}, !.at[g] = Tail(@)]
             [] call[1] = "Lock" ->
                   IF mu.readers = {}
                   THEN lk' = [lk EXCEPT !.mu[m].writer = {g}, !.mu[m].pending = {},
                                         !.at[g] = Tail(@)]
                   ELSE lk' = [lk EXCEPT !.mu[m].pending = {g}]
             [] call[1] = "Unlock" ->
                   lk' = [lk EXCEPT !.mu[m].writer = {}, !.at[g] = Tail(@)]
    /\ lastOp' = NoCall
    /\ UNCHANGED <<series, totalPoints, maxSeries, maxPointsPerSeries, now, held>>
    /\ UNCHANGED <<warmVars, spVars, anVars, hsVars, bg, fe>>

\* The goroutines a goroutine is waiting for: the holders of the lock it
\* asks for and the writer that announced itself before it.
WaitsFor(g) ==
    IF lk.at[g] = <<>> \/ CanProceed(g) THEN {}
    ELSE LET call == Head(lk.at[g])
             mu == lk.mu[call[2]]
         IN  IF g \in mu.pending THEN mu.readers
             ELSE mu.writer \cup mu.pending
                     \cup (IF call[1] = "Lock" THEN mu.readers ELSE {})

----------------------------------------------------------------------------
(* DataValidator.  A float64 is a finite number, an infinity or NaN; the   *)
(* finite values are counted in units of 10^11 and time in hours.          *)

DefaultMaxValueRange == 10
OneHour == 1
SevenDays == 168

Fin(n) == [k |-> "fin", n |-> n]
PosInf == [k |-> "inf", n |-> 1]
NegInf == [k |-> "inf", n |-> -1]
NaN == [k |-> "nan", n |-> 0]

\* a > b on float64: false when either side is NaN.
FloatGt(a, b) ==
    IF a.k = "nan" \/ b.k = "nan" THEN FALSE
    ELSE IF a.k = "inf" THEN a.n = 1 /\ ~(b.k = "inf" /\ b.n = 1)
    ELSE IF b.k = "inf" THEN b.n = -1
    ELSE a.n > b.n

\* a < b on float64.
FloatLt(a, b) == FloatGt(b, a)

\* -a on float64.
FloatNeg(a) == [a EXCEPT !.n = -@]

\* NewDataValidator
NewDataValidator ==
    [maxValueRange |-> Fin(DefaultMaxValueRange), allowedMetricNames |-> {},
     requiredLabels |-> <<>>]

\* The range check of ValidateMetric.
ValueOutOfRange(dv, value) ==
    FloatGt(value, dv.maxValueRange) \/ FloatLt(value, FloatNeg(dv.maxValueRange))

\* DataValidator.ValidateMetric: TRUE when it returns an error.
ValidateMetric(dv, metric, clock) ==
    \/ dv.allowedMetricNames # {} /\ metric.Name \notin dv.allowedMetricNames
    \/ \E i \in 1..Len(dv.requiredLabels) : dv.requiredLabels[i] \notin DOMAIN metric.Labels
    \/ ValueOutOfRange(dv, metric.Value)
    \/ metric.Timestamp > clock + OneHour
    \/ metric.Timestamp < clock - SevenDays

MetricData(name, labels, timestamp, value) ==
    [Name |-> name, Labels |-> labels, Timestamp |-> timestamp, Value |-> value]

\* A caller validates a metric.
CallValidateMetric(dv, metric) ==
    /\ lastOp' = [op |-> "ValidateMetric", dv |-> dv, metric |-> metric,
                  err |-> ValidateMetric(dv, metric, now)]
    /\ UNCHANGED <<series, totalPoints, maxSeries, maxPointsPerSeries, now, held, warmVars,
                   spVars, anVars, hsVars, wkVars>>

----------------------------------------------------------------------------
(* StreamProcessor.  Every section of code that runs under bufferMutex is  *)
(* one step; a goroutine is a record of where it is (pc), the metric it is *)
(* ingesting, the batch it is processing and where it goes on after        *)
(* flushBuffer (next).                                                     *)

Ingesters == {"g1", "g2"}
Controller == "ctl"
Flusher == "flusher"
Goroutines == Ingesters \cup {Controller, Flusher}

NoMetric == MetricData("", NoLabels, 0, Fin(0))

Proc(pc, metric, batch, next) ==
    [pc |-> pc, metric |-> metric, batch |-> batch, next |-> next]

IdleProc == Proc("idle", NoMetric, <<>>, "return")
DoneProc == Proc("done", NoMetric, <<>>, "select")

\* NewStreamProcessor: stopped, empty buffer, a fresh stop channel and the
\* default validator.
NewStreamProcessor(bufSize, batSize) ==
    /\ bufferSize = bufSize
    /\ batchSize = batSize
    /\ isRunning = FALSE
    /\ dataBuffer = <<>>
    /\ stopChan = "open"
    /\ stats = [TotalIngested |-> 0, TotalProcessed |-> 0, TotalErrors |-> 0,
                BatchesProcessed |-> 0]
    /\ procs = [p \in Goroutines |-> IF p = Flusher THEN DoneProc ELSE IdleProc]
    /\ tickReady = FALSE
    /\ written = <<>>
    /\ calls = 0
    /\ panicked = FALSE
    /\ batchCalls = [g \in Ingesters |-> [active |-> FALSE, todo |-> <<>>, items |-> <<>>,
                                         ingested |-> 0, errors |-> 0, running |-> TRUE]]

storeVars == <<series, totalPoints, maxSeries, maxPointsPerSeries, now, held, warmVars>>

\* What the caller of a function that returned gets.
Returned_(op, p, err) == [op |-> op, by |-> p, n |-> calls, err |-> err]

\* Where goroutine p goes on when its flushBuffer call returns.
AfterFlush(p) ==
    IF procs[p].next = "append" THEN Proc("append", procs[p].metric, <<>>, "return")
    ELSE IF procs[p].next = "select" THEN Proc("select", NoMetric, <<>>, "select")
    ELSE IdleProc

\* The return reported when flushBuffer was the last thing the call did.
AfterFlushOp(p) ==
    IF procs[p].next = "return"
    THEN IF p = Controller THEN Returned_("Stop", p, FALSE)
         ELSE Returned_("IngestMetric", p, FALSE)
    ELSE lastOp

\* IngestMetric lines 196-206, in call number n: the metric is appended and
\* counted, and the caller goes to flush when the batch size is reached.
AppendMetric(g, metric, n) ==
    /\ dataBuffer' = Append(dataBuffer, metric)
    /\ stats' = [stats EXCEPT !.TotalIngested = @ + 1]
    /\ IF Len(dataBuffer) + 1 >= batchSize
       THEN /\ procs' = [procs EXCEPT ![g] = Proc("fb", metric, <<>>, "return")]
            /\ lastOp' = lastOp
       ELSE /\ procs' = [procs EXCEPT ![g] = IdleProc]
            /\ lastOp' = [Returned_("IngestMetric", g, FALSE) EXCEPT !.n = n]

\* IngestMetric lines 185-187: the processor is not running.
NotRunning(g, n) ==
    /\ lastOp' = [Returned_("IngestMetric", g, TRUE) EXCEPT !.n = n]
    /\ UNCHANGED <<dataBuffer, stats, procs>>

\* StreamProcessor.IngestMetric up to its first release of bufferMutex.
IngestOne(g, metric) ==
    /\ ~panicked
    /\ procs[g].pc = "idle"
    /\ calls < MaxIngestCalls
    /\ calls' = calls + 1
    /\ IF ValidateMetric(NewDataValidator, metric, now)
       THEN /\ stats' = [stats EXCEPT !.TotalErrors = @ + 1]
            /\ lastOp' = [Returned_("IngestMetric", g, TRUE) EXCEPT !.n = calls + 1]
            /\ UNCHANGED <<dataBuffer, procs>>
       ELSE IF ~isRunning
       THEN NotRunning(g, calls + 1)
       ELSE IF Len(dataBuffer) >= bufferSize
       THEN /\ procs' = [procs EXCEPT ![g] = Proc("fb", metric, <<>>, "append")]
            /\ UNCHANGED <<dataBuffer, stats, lastOp>>
       ELSE AppendMetric(g, metric, calls + 1)
    /\ UNCHANGED <<bufferSize, batchSize, isRunning, stopChan, tickReady, written, panicked>>
    /\ UNCHANGED <<storeVars, anVars, hsVars, wkVars>>

\* A caller calls IngestMetric.
IngestMetric(g, metric) ==
    /\ ~batchCalls[g].active
    /\ IngestOne(g, metric)
    /\ UNCHANGED batchCalls

\* The validation failures counted so far: the errors that are not failed
\* storage writes.
ValidationErrors == stats.TotalErrors - (Len(written) - stats.TotalProcessed)

NoBatchCall ==
    [active |-> FALSE, todo |-> <<>>, items |-> <<>>, ingested |-> 0, errors |-> 0,
     running |-> TRUE]

\* StreamProcessor.IngestBatch is called: the loop is before its first item.
\* The call remembers the counters it started from.
IngestBatch(g, metrics) ==
    /\ ~panicked
    /\ procs[g].pc = "idle"
    /\ ~batchCalls[g].active
    /\ calls + Len(metrics) <= MaxIngestCalls
    /\ batchCalls' = [batchCalls EXCEPT ![g] =
                         [active |-> TRUE, todo |-> metrics, items |-> metrics,
                          ingested |-> stats.TotalIngested, errors |-> ValidationErrors,
                          running |-> TRUE]]
    /\ UNCHANGED <<bufferSize, batchSize, isRunning, dataBuffer, stopChan, stats, procs,
                   tickReady, written, calls, panicked, lastOp>>
    /\ UNCHANGED <<storeVars, anVars, hsVars, wkVars>>

\* The loop of IngestBatch that gives up at the first item that fails.
RestAfterItemAbort(rest, err) == IF err THEN <<>> ELSE rest

\* IngestBatch lines 212-215: what is left of the batch after an item; a
\* failure is logged and the loop goes on.
RestAfterItem(rest, err) == rest

\* One round of the loop of IngestBatch: IngestMetric is called for the next
\* item (it fails, if it does, before it first releases the lock).
IngestBatchItem(g) ==
    LET metric == Head(batchCalls[g].todo)
        invalid == ValidateMetric(NewDataValidator, metric, now)
    IN  /\ batchCalls[g].active
        /\ batchCalls[g].todo # <<>>
        /\ IngestOne(g, metric)
        /\ batchCalls' = [batchCalls EXCEPT
                             ![g].todo = RestAfterItem(Tail(@), invalid \/ ~isRunning),
                             ![g].running = @ /\ (invalid \/ isRunning)]

\* IngestBatch line 217: the loop is over and the call returns nil.
IngestBatchReturn(g) ==
    /\ ~panicked
    /\ procs[g].pc = "idle"
    /\ batchCalls[g].active
    /\ batchCalls[g].todo = <<>>
    /\ batchCalls' = [batchCalls EXCEPT ![g] = NoBatchCall]
    /\ lastOp' = [op |-> "IngestBatch", by |-> g, n |-> calls, err |-> FALSE,
                  items |-> batchCalls[g].items, running |-> batchCalls[g].running,
                  ingested |-> stats.TotalIngested - batchCalls[g].ingested,
                  errors |-> ValidationErrors - batchCalls[g].errors]
    /\ UNCHANGED <<bufferSize, batchSize, isRunning, dataBuffer, stopChan, stats, procs,
                   tickReady, written, calls, panicked>>
    /\ UNCHANGED <<storeVars, anVars, hsVars, wkVars>>

\* IngestMetric from line 193, after the flush made for a full buffer.
IngestAppend(g) ==
    /\ ~panicked
    /\ procs[g].pc = "append"
    /\ AppendMetric(g, procs[g].metric, calls)
    /\ UNCHANGED <<bufferSize, batchSize, isRunning, stopChan, tickReady, written, calls,
                   panicked>>
    /\ UNCHANGED <<storeVars, batchCalls, anVars, hsVars, wkVars>>

\* StreamProcessor.flushBuffer lines 252-264: the buffer is swapped for an
\* empty one under the lock.
\* A copy of the buffer that misses its last metric.
CopyBufferShort(buffer) == SubSeq(buffer, 1, Len(buffer) - 1)

\* batch := make([]MetricData, len(sp.dataBuffer)); copy(batch, sp.dataBuffer)
CopyBuffer(buffer) == buffer

FlushBuffer(p) ==
    /\ ~panicked
    /\ procs[p].pc = "fb"
    /\ IF Len(dataBuffer) = 0
       THEN /\ procs' = [procs EXCEPT ![p] = AfterFlush(p)]
            /\ lastOp' = AfterFlushOp(p)
            /\ UNCHANGED dataBuffer
       ELSE /\ procs' = [procs EXCEPT ![p].pc = "pb", ![p].batch = CopyBuffer(dataBuffer)]
            /\ dataBuffer' = <<>>
            /\ UNCHANGED lastOp
    /\ UNCHANGED <<bufferSize, batchSize, isRunning, stopChan, stats, tickReady, written,
                   calls, panicked>>
    /\ UNCHANGED <<storeVars, batchCalls, anVars, hsVars, wkVars>>

\* One round of the loop of processBatch: the next metric of the batch goes
\* to the storage writer, which takes it (ok) or fails; after the last one
\* the batch is counted (flushBuffer line 268).
ProcessBatch(p, ok) ==
    LET batch == procs[p].batch
        last == Len(batch) = 1
    IN  /\ ~panicked
        /\ procs[p].pc = "pb"
        /\ written' = Append(written, Head(batch))
        /\ stats' = [stats EXCEPT
                        !.TotalProcessed = IF ok THEN @ + 1 ELSE @,
                        !.TotalErrors = IF ok THEN @ ELSE @ + 1,
                        !.BatchesProcessed = IF last THEN @ + 1 ELSE @]
        /\ IF last
           THEN /\ procs' = [procs EXCEPT ![p] = AfterFlush(p)]
                /\ lastOp' = AfterFlushOp(p)
           ELSE /\ procs' = [procs EXCEPT ![p].batch = Tail(batch)]
                /\ UNCHANGED lastOp
        /\ UNCHANGED <<bufferSize, batchSize, isRunning, dataBuffer, stopChan, tickReady,
                       calls, panicked>>
        /\ UNCHANGED <<storeVars, batchCalls, anVars, hsVars, wkVars>>

\* StreamProcessor.Start
Start ==
    /\ ~panicked
    /\ procs[Controller].pc = "idle"
    /\ IF isRunning
       THEN /\ lastOp' = Returned_("Start", Controller, TRUE)
            /\ UNCHANGED <<isRunning, procs>>
       ELSE /\ isRunning' = TRUE
            /\ procs' = [procs EXCEPT ![Flusher] = Proc("select", NoMetric, <<>>, "select")]
            /\ lastOp' = Returned_("Start", Controller, FALSE)
    /\ UNCHANGED <<bufferSize, batchSize, dataBuffer, stopChan, stats, tickReady, written,
                   calls, panicked>>
    /\ UNCHANGED <<storeVars, batchCalls, anVars, hsVars, wkVars>>

\* StreamProcessor.Stop lines 159-165
Stop ==
    /\ ~panicked
    /\ procs[Controller].pc = "idle"
    /\ IF ~isRunning
       THEN /\ lastOp' = Returned_("Stop", Controller, FALSE)
            /\ UNCHANGED <<isRunning, procs>>
       ELSE /\ isRunning' = FALSE
            /\ procs' = [procs EXCEPT ![Controller].pc = "close"]
            /\ UNCHANGED lastOp
    /\ UNCHANGED <<bufferSize, batchSize, dataBuffer, stopChan, stats, tickReady, written,
                   calls, panicked>>
    /\ UNCHANGED <<storeVars, batchCalls, anVars, hsVars, wkVars>>

\* Stop line 167: close(sp.stopChan); closing a closed channel panics.
StopClose ==
    /\ ~panicked
    /\ procs[Controller].pc = "close"
    /\ IF stopChan = "closed"
       THEN /\ panicked' = TRUE
            /\ UNCHANGED <<stopChan, procs>>
       ELSE /\ stopChan' = "closed"
            /\ procs' = [procs EXCEPT ![Controller].pc = "wait"]
            /\ UNCHANGED panicked
    /\ UNCHANGED <<bufferSize, batchSize, isRunning, dataBuffer, stats, tickReady, written,
                   calls, lastOp>>
    /\ UNCHANGED <<storeVars, batchCalls, anVars, hsVars, wkVars>>

\* Stop lines 168-171: wg.Wait() returns when the flush routine is gone;
\* then the final flushBuffer.
StopWait ==
    /\ ~panicked
    /\ procs[Controller].pc = "wait"
    /\ procs[Flusher].pc = "done"
    /\ procs' = [procs EXCEPT ![Controller] = Proc("fb", NoMetric, <<>>, "return")]
    /\ UNCHANGED <<bufferSize, batchSize, isRunning, dataBuffer, stopChan, stats, tickReady,
                   written, calls, panicked, lastOp>>
    /\ UNCHANGED <<storeVars, batchCalls, anVars, hsVars, wkVars>>

\* flushInterval passes: the ticker of the flush routine has a tick.
TickerFire ==
    /\ ~panicked
    /\ procs[Flusher].pc # "done"
    /\ ~tickReady
    /\ tickReady' = TRUE
    /\ UNCHANGED <<bufferSize, batchSize, isRunning, dataBuffer, stopChan, stats, procs,
                   written, calls, panicked, lastOp>>
    /\ UNCHANGED <<storeVars, batchCalls, anVars, hsVars, wkVars>>

\* flushRoutine, case <-sp.stopChan: a closed channel is always ready.
FlushRoutineStop ==
    /\ ~panicked
    /\ procs[Flusher].pc = "select"
    /\ stopChan = "closed"
    /\ procs' = [procs EXCEPT ![Flusher] = DoneProc]
    /\ tickReady' = FALSE
    /\ UNCHANGED <<bufferSize, batchSize, isRunning, dataBuffer, stopChan, stats, written,
                   calls, panicked, lastOp>>
    /\ UNCHANGED <<storeVars, batchCalls, anVars, hsVars, wkVars>>

\* flushRoutine, case <-ticker.C
FlushRoutineTick ==
    /\ ~panicked
    /\ procs[Flusher].pc = "select"
    /\ tickReady
    /\ tickReady' = FALSE
    /\ procs' = [procs EXCEPT ![Flusher] = Proc("fb", NoMetric, <<>>, "select")]
    /\ UNCHANGED <<bufferSize, batchSize, isRunning, dataBuffer, stopChan, stats, written,
                   calls, panicked, lastOp>>
    /\ UNCHANGED <<storeVars, batchCalls, anVars, hsVars, wkVars>>

----------------------------------------------------------------------------
(***************************************************************************)
(* Anomaly detectors (ZScoreDetector, IQRDetector, MovingAverageDetector). *)
(* Values are integers; the statistics are compared exactly by             *)
(* cross-multiplication instead of dividing, and a score is kept as        *)
(* "zero or not".  Train reads only the Value of each training point, so   *)
(* a training set is a sequence of values.                                 *)
(***************************************************************************)
ZScoreMinValues == 3
IQRMinValues == 4
MovingAverageMinValues == 2

DetectorNames == {"zscore", "iqr", "moving_average"}

Thresholds == {1, 2}

NewDetector(name, threshold, windowSize) ==
    [name |-> name, threshold |-> threshold, windowSize |-> windowSize, values |-> <<>>]

\* The length below which Detect answers without scoring.
MinValues(name) ==
    CASE name = "zscore" -> ZScoreMinValues
      [] name = "iqr" -> IQRMinValues
      [] OTHER -> MovingAverageMinValues

AbsInt(x) == IF x < 0 THEN -x ELSE x

RECURSIVE SeqSum(_)
SeqSum(s) == IF s = <<>> THEN 0 ELSE Head(s) + SeqSum(Tail(s))

\* values = values[len(values)-windowSize:] when longer than the window
KeepRecent(values, windowSize) ==
    IF Len(values) > windowSize
    THEN SubSeq(values, Len(values) - windowSize + 1, Len(values))
    ELSE values

\* append(values, v), then values[1:] when longer than the window
SlideWindow(values, v, windowSize) ==
    LET appended == Append(values, v)
    IN  IF Len(appended) > windowSize THEN Tail(appended) ELSE appended

RECURSIVE InsertSorted(_, _)
InsertSorted(s, v) ==
    IF s = <<>> THEN <<v>>
    ELSE IF v <= Head(s) THEN <<v>> \o s
    ELSE <<Head(s)>> \o InsertSorted(Tail(s), v)

RECURSIVE SortFloat64s(_)
SortFloat64s(s) ==
    IF s = <<>> THEN <<>> ELSE InsertSorted(SortFloat64s(Tail(s)), Head(s))

\* Four times percentile(sortedData, 25 * quarters): index = quarters/4 * (n-1),
\* linear interpolation between the two neighbours.
Percentile4(sortedData, quarters) ==
    LET n == Len(sortedData)
        index4 == quarters * (n - 1)
        lower == index4 \div 4
        weight4 == index4 % 4
    IN  IF n = 0 THEN 0
        ELSE IF n = 1 THEN 4 * sortedData[1]
        ELSE IF weight4 = 0 THEN 4 * sortedData[lower + 1]
        ELSE sortedData[lower + 1] * (4 - weight4) + sortedData[lower + 2] * weight4

AnomalyResult(isAnomaly, scoreIsZero, threshold, name, value) ==
    [IsAnomaly |-> isAnomaly, ScoreIsZero |-> scoreIsZero, Threshold |-> threshold,
     Method |-> name, Value |-> value]

\* zScore = |value - mean| / stdDev against the statistics of the ring
\* (sample standard deviation, 1e-10 when it is zero); zScore > threshold.
ZScoreResult(d, value) ==
    LET n == Len(d.values)
        sum == SeqSum(d.values)
        dev == n * value - sum
        squares == SeqSum([i \in 1..n |-> (n * d.values[i] - sum) * (n * d.values[i] - sum)])
        isAnomaly == IF squares = 0 THEN dev # 0
                     ELSE dev * dev * (n - 1) > d.threshold * d.threshold * squares
    IN  AnomalyResult(isAnomaly, dev = 0, d.threshold, d.name, value)

\* Outside [q1 - multiplier*iqr, q3 + multiplier*iqr]; the score is the
\* distance from the nearest bound over the range, zero inside the bounds.
IQRResult(d, value) ==
    LET sortedValues == SortFloat64s(d.values)
        q1 == Percentile4(sortedValues, 1)
        q3 == Percentile4(sortedValues, 3)
        iqrRange == q3 - q1
        lowerBound == q1 - d.threshold * iqrRange
        upperBound == q3 + d.threshold * iqrRange
        isAnomaly == 4 * value < lowerBound \/ 4 * value > upperBound
    IN  AnomalyResult(isAnomaly, ~isAnomaly, d.threshold, d.name, value)

\* score = |value - average| / (mad + 1e-10); score > threshold.
MovingAverageResult(d, value) ==
    LET n == Len(d.values)
        sum == SeqSum(d.values)
        deviation == AbsInt(n * value - sum)
        mad == SeqSum([i \in 1..n |-> AbsInt(n * d.values[i] - sum)])
    IN  AnomalyResult(n * deviation > d.threshold * mad, deviation = 0,
                      d.threshold, d.name, value)

ScoreValue(d, value) ==
    CASE d.name = "zscore" -> ZScoreResult(d, value)
      [] d.name = "iqr" -> IQRResult(d, value)
      [] OTHER -> MovingAverageResult(d, value)

\* Train: an error for no points, else the ring becomes the most recent
\* windowSize values.
Train(points) ==
    /\ detector' = IF Len(points) = 0 THEN detector
                   ELSE [detector EXCEPT !.values = KeepRecent(points, detector.windowSize)]
    /\ lastOp' = [op |-> "Train", points |-> points, err |-> Len(points) = 0,
                  before |-> detector.values]
    /\ UNCHANGED <<storeVars, spVars, hsVars, wkVars>>

\* Detect: below the minimum length it answers "no anomaly, score 0" and
\* returns; otherwise it scores the value and slides the window.
Detect(value) ==
    LET warmUp == Len(detector.values) < MinValues(detector.name)
    IN  /\ detector' = IF warmUp THEN detector
                       ELSE [detector EXCEPT
                               !.values = SlideWindow(@, value, detector.windowSize)]
        /\ lastOp' = [op |-> "Detect", value |-> value, warmUp |-> warmUp,
                      result |-> IF warmUp
                                 THEN AnomalyResult(FALSE, TRUE, detector.threshold,
                                                    detector.name, value)
                                 ELSE ScoreValue(detector, value),
                      before |-> detector.values]
        /\ UNCHANGED <<storeVars, spVars, hsVars, wkVars>>

----------------------------------------------------------------------------
(* ForecastEngine with the linear trend model enabled.  The clock counts   *)
(* minutes, timestamps count seconds, and a float64 computed by a division  *)
(* is kept as the pair of its numerator and denominator; a zero             *)
(* denominator stands for NaN.                                              *)

DefaultMaxDataPoints == 10000
DefaultCacheTimeout == 5

Untrained == [trained |-> FALSE, slope |-> <<0, 1>>, intercept |-> <<0, 1>>]

\* NewForecastEngine with EnableLinearTrend and config.CacheTimeout = cacheTimeout.
NewForecastEngine(cacheTimeout) ==
    [config |-> [MaxDataPoints |-> DefaultMaxDataPoints, CacheTimeout |-> cacheTimeout],
     linear_trend |-> Untrained,
     cache |-> [horizon \in {} |-> <<>>]]

\* LinearTrendModel.Train on two points or more: the regression over the
\* seconds since the first point.
LinearTrendTrain(data) ==
    LET n == Len(data)
        x == [i \in 1..n |-> data[i].Timestamp - data[1].Timestamp]
        y == [i \in 1..n |-> data[i].Value]
        sumX == SeqSum(x)
        sumY == SeqSum(y)
        sumXY == SeqSum([i \in 1..n |-> x[i] * y[i]])
        sumX2 == SeqSum([i \in 1..n |-> x[i] * x[i]])
        slopeNum == n * sumXY - sumX * sumY
        slopeDen == n * sumX2 - sumX * sumX
    IN  [trained |-> TRUE,
         slope |-> <<slopeNum, slopeDen>>,
         intercept |-> <<sumY * slopeDen - slopeNum * sumX, n * slopeDen>>]

\* slope*x + intercept
TrendValue(model, x) ==
    <<model.slope[1] * x * model.intercept[2] + model.intercept[1] * model.slope[2],
      model.slope[2] * model.intercept[2]>>

\* LinearTrendModel.Forecast on a trained model: the values of the predictions.
LinearTrendForecast(model, horizon) == [i \in 1..horizon |-> TrendValue(model, i - 1)]

\* Two float64 values are equal; NaN equals nothing.
FloatEq(a, b) == a[2] # 0 /\ b[2] # 0 /\ a[1] * b[2] = b[1] * a[2]

\* ForecastEngine.TrainModels
TrainModels(data) ==
    LET sorted == SortByTimestamp(data)
        limit == fe.config.MaxDataPoints
        kept == IF Len(sorted) > limit
                THEN SubSeq(sorted, Len(sorted) - limit + 1, Len(sorted))
                ELSE sorted
    IN  /\ IF Len(data) = 0 \/ Len(kept) < 2
           THEN /\ lastOp' = [op |-> "TrainModels", data |-> data, err |-> TRUE]
                /\ UNCHANGED fe
           ELSE /\ fe' = [fe EXCEPT !.linear_trend = LinearTrendTrain(kept)]
                /\ lastOp' = [op |-> "TrainModels", data |-> data, err |-> FALSE]
        /\ UNCHANGED <<series, totalPoints, maxSeries, maxPointsPerSeries, now, held>>
        /\ UNCHANGED <<warmVars, spVars, anVars, hsVars, bg, lk>>

\* The cache holds a result for the horizon that is younger than the timeout.
CacheHit(horizon) ==
    /\ horizon \in DOMAIN fe.cache
    /\ now - fe.cache[horizon].GeneratedAt < fe.config.CacheTimeout

\* ForecastEngine.Forecast.  The result of the only model is the ensemble.
Forecast(horizon) ==
    /\ IF CacheHit(horizon)
       THEN /\ lastOp' = [op |-> "Forecast", horizon |-> horizon, err |-> FALSE,
                          result |-> fe.cache[horizon]]
            /\ UNCHANGED fe
       ELSE IF ~fe.linear_trend.trained
       THEN /\ lastOp' = [op |-> "Forecast", horizon |-> horizon, err |-> TRUE]
            /\ UNCHANGED fe
       ELSE LET finalResult == [Predictions |-> LinearTrendForecast(fe.linear_trend, horizon),
                                GeneratedAt |-> now, ForecastHorizon |-> horizon]
            IN  /\ fe' = [fe EXCEPT !.cache =
                             [h \in DOMAIN fe.cache \cup {horizon} |->
                                 IF h = horizon THEN finalResult ELSE fe.cache[h]]]
                /\ lastOp' = [op |-> "Forecast", horizon |-> horizon, err |-> FALSE,
                              result |-> finalResult]
    /\ UNCHANGED <<series, totalPoints, maxSeries, maxPointsPerSeries, now, held>>
    /\ UNCHANGED <<warmVars, spVars, anVars, hsVars, bg, lk>>

----------------------------------------------------------------------------
InitStore ==
    /\ series = [id \in {} |-> NewSeries(id, NoLabels, 0)]
    /\ totalPoints = 0
    /\ maxSeries \in 1..MaxSeriesCap
    /\ maxPointsPerSeries \in 1..MaxPointsCap
    /\ now = 0
    /\ lastOp = NoCall
    /\ held = NoResult
    /\ disk = [id \in {} |-> [blocks |-> <<>>, modTime |-> 0]]
    /\ files = [id \in {} |-> [SeriesID |-> id, FileSize |-> 0, LastModified |-> 0,
                                IndexEntries |-> <<>>]]

\* The stores and a stream processor with a one-metric buffer.
Init ==
    /\ InitStore
    /\ NewStreamProcessor(1, 1)
    /\ detector = NewDetector("zscore", 2, 1)
    /\ adding = NoAdding
    /\ bg = NoWorkers
    /\ lk = NoLocks
    /\ fe = NewForecastEngine(DefaultCacheTimeout)

(* The store specification: series are created up to the series limit,    *)
(* receive points at two timestamps and are removed by age as the clock    *)
(* advances.                                                               *)
StoreTimestamps == {0, 1}
StoreValues == {1}

DoAddPoint ==
    \E id \in SeriesIDs, t \in StoreTimestamps, v \in StoreValues :
        AddPoint(id, NoLabels, t, v)

DoCleanupStale == \E a \in Ages : CleanupStale(a)

Next == DoAddPoint \/ DoCleanupStale \/ Tick

Spec == Init /\ [][Next]_vars

(* The depth specification: one series receives points at every timestamp, *)
(* in any order, with every value.                                         *)
DepthIDs == {"metric1"}

DoAddPointD ==
    \E id \in DepthIDs, t \in Timestamps, v \in Values : AddPoint(id, NoLabels, t, v)

\* NewHotStorage(1, maxPointsPerSeries)
InitDepth == Init /\ maxSeries = 1

NextDepth == DoAddPointD

SpecDepth == InitDepth /\ [][NextDepth]_vars

(* The range-query specification: the depth specification with GetRange    *)
(* calls on the series.                                                    *)
DoQueryRange ==
    \E id \in DepthIDs, start \in Timestamps, end \in Timestamps :
        QueryRange(id, start, end)

NextQuery == DoAddPointD \/ DoQueryRange

SpecQuery == InitDepth /\ [][NextQuery]_vars

(* The label-filter specification: series are created with labels and      *)
(* selected by label filters.                                              *)
DoAddPointL ==
    \E id \in SeriesIDs, labels \in LabelMaps : AddPoint(id, labels, 0, 1)

DoGetSeriesByLabels == \E f \in LabelMaps : GetSeriesByLabels(f)

NextLabels == DoAddPointL \/ DoGetSeriesByLabels

SpecLabels == Init /\ [][NextLabels]_vars

(* The warm specification: blocks are written to the file of one series   *)
(* and the store is closed and reopened.                                   *)
\* The ascending point lists written as one block: up to MaxBlockLen
\* timestamps, all with the same value.
WarmPointLists ==
    { [i \in 1..Cardinality(S) |-> DataPoint(AscendingSeq(S)[i], v)] :
        S \in {T \in SUBSET WarmTimestamps : T # {} /\ Cardinality(T) <= MaxBlockLen},
        v \in Values }

DoWriteSeriesData ==
    \E id \in WarmIDs, points \in WarmPointLists : WriteSeriesData(id, NoLabels, points)

NextWarm == DoWriteSeriesData \/ Reopen

InitWarm == Init /\ maxSeries = 1 /\ maxPointsPerSeries = 1

SpecWarm == InitWarm /\ [][NextWarm]_vars

(* The engine specification: samples of one series enter the hot store,   *)
(* the clock advances and tiering copies stale series to the warm store.   *)
DoAddPointE ==
    \E id \in DepthIDs, timestamp \in Timestamps, value \in Values :
        AddPoint(id, NoLabels, timestamp, value)

DoPerformTiering == \E retention \in Ages : PerformTiering(retention)

NextEngine == DoAddPointE \/ DoPerformTiering \/ Tick

SpecEngine == InitDepth /\ [][NextEngine]_vars

(* The validator specification: metrics of every kind are validated by   *)
(* the default validator and by validators with a whitelist or required    *)
(* labels.                                                                 *)
MetricNames == {"cpu.usage", "disk.usage"}

FloatValues ==
    {NegInf, PosInf, NaN, Fin(0)}
        \cup {Fin(n) : n \in {DefaultMaxValueRange, DefaultMaxValueRange + 1}}
        \cup {Fin(-n) : n \in {DefaultMaxValueRange, DefaultMaxValueRange + 1}}

TimestampOffsets == {-(SevenDays + 1), -SevenDays, 0, OneHour, OneHour + 1}

Validators ==
    {NewDataValidator,
     [NewDataValidator EXCEPT !.allowedMetricNames = {"cpu.usage"}],
     [NewDataValidator EXCEPT !.requiredLabels = <<"host">>]}

DoValidateMetric ==
    \E dv \in Validators, name \in MetricNames, labels \in LabelMaps,
       offset \in TimestampOffsets, value \in FloatValues :
        CallValidateMetric(dv, MetricData(name, labels, now + offset, value))

NextValidator == DoValidateMetric \/ Tick

SpecValidator == InitWarm /\ [][NextValidator]_vars

(* The ingestion specification: two callers ingest valid and invalid     *)
(* metrics while a controller starts and stops the processor and the       *)
(* flush routine runs.                                                     *)
InitProcessor ==
    /\ InitStore
    /\ maxSeries = 1
    /\ maxPointsPerSeries = 1
    /\ \E bufSize \in 1..MaxBufferSize, batSize \in 1..MaxBatchSize :
          NewStreamProcessor(bufSize, batSize)
    /\ detector = NewDetector("zscore", 2, 1)
    /\ adding = NoAdding
    /\ bg = NoWorkers
    /\ lk = NoLocks
    /\ fe = NewForecastEngine(DefaultCacheTimeout)

IngestInputs ==
    {MetricData("cpu.usage", NoLabels, 0, Fin(1)),
     MetricData("cpu.usage", NoLabels, 0, Fin(DefaultMaxValueRange + 1))}

DoIngestMetric == \E g \in Ingesters, metric \in IngestInputs : IngestMetric(g, metric)

DoIngestAppend == \E g \in Ingesters : IngestAppend(g)

DoFlushBuffer == \E p \in Goroutines : FlushBuffer(p)

DoProcessBatch == \E p \in Goroutines, ok \in BOOLEAN : ProcessBatch(p, ok)

NextProcessor ==
    \/ DoIngestMetric
    \/ DoIngestAppend
    \/ DoFlushBuffer
    \/ DoProcessBatch
    \/ Start
    \/ Stop
    \/ StopClose
    \/ StopWait
    \/ TickerFire
    \/ FlushRoutineStop
    \/ FlushRoutineTick

SpecProcessor == InitProcessor /\ [][NextProcessor]_vars

(* The batch specification: one caller ingests batches of valid and       *)
(* invalid metrics while the processor is started and stopped and the      *)
(* flush routine runs.                                                     *)
BatchCallers == {"g1"}

Batches == UNION {[1..n -> IngestInputs] : n \in 1..MaxBatchItems}

DoIngestBatch == \E g \in BatchCallers, metrics \in Batches : IngestBatch(g, metrics)

DoIngestBatchItem == \E g \in BatchCallers : IngestBatchItem(g)

DoIngestBatchReturn == \E g \in BatchCallers : IngestBatchReturn(g)

\* The storage writer takes every metric.
DoProcessBatchStored == \E p \in Goroutines : ProcessBatch(p, TRUE)

NextBatch ==
    \/ DoIngestBatch
    \/ DoIngestBatchItem
    \/ DoIngestBatchReturn
    \/ DoIngestAppend
    \/ DoFlushBuffer
    \/ DoProcessBatchStored
    \/ Start
    \/ Stop
    \/ StopClose
    \/ StopWait
    \/ TickerFire
    \/ FlushRoutineStop
    \/ FlushRoutineTick

SpecBatch == InitProcessor /\ [][NextBatch]_vars


(* The flush specification: one caller ingests metrics that can be told    *)
(* apart (the n-th call carries the value n at the same timestamp) while    *)
(* the flush routine, the size-triggered flushes and Stop run.              *)
FlushCallers == {"g1"}

NextMetric == MetricData("cpu.usage", NoLabels, 0, Fin(calls + 1))

DoIngestNext == \E g \in FlushCallers : IngestMetric(g, NextMetric)

NextFlush ==
    \/ DoIngestNext
    \/ DoIngestAppend
    \/ DoFlushBuffer
    \/ DoProcessBatch
    \/ Start
    \/ Stop
    \/ StopClose
    \/ StopWait
    \/ TickerFire
    \/ FlushRoutineStop
    \/ FlushRoutineTick

SpecFlush == InitProcessor /\ [][NextFlush]_vars

(* The restart specification: the engine specification with restarts of   *)
(* the engine over the same warm directory.                                *)
NextRestart == NextEngine \/ EngineRestart

SpecRestart == InitDepth /\ [][NextRestart]_vars


\* A detector of any kind, trained and asked in any order.
InitDetector ==
    /\ InitStore
    /\ maxSeries = 1
    /\ maxPointsPerSeries = 1
    /\ NewStreamProcessor(1, 1)
    /\ \E name \in DetectorNames, threshold \in Thresholds, windowSize \in 1..MaxWindowSize :
          detector = NewDetector(name, threshold, windowSize)
    /\ adding = NoAdding
    /\ bg = NoWorkers
    /\ lk = NoLocks
    /\ fe = NewForecastEngine(DefaultCacheTimeout)

TrainingSets == UNION {[1..n -> Values] : n \in 0..MaxTrainLen}

DoTrain == \E points \in TrainingSets : Train(points)

DoDetect == \E value \in Values : Detect(value)

NextDetector == DoTrain \/ DoDetect

SpecDetector == InitDetector /\ [][NextDetector]_vars


(* The handle specification: one series, AddPoint in its steps, and a      *)
(* goroutine reading the series between them.                              *)
DoAddPointEvict ==
    \E id \in DepthIDs, t \in Timestamps, v \in Values : AddPointEvict(id, NoLabels, t, v)

DoHandleRead ==
    \E id \in DepthIDs, start \in Timestamps, end \in Timestamps :
        start <= end /\ HandleRead(id, start, end)

NextHandle == DoAddPointEvict \/ AddPointInsert \/ DoHandleRead

SpecHandle == InitDepth /\ [][NextHandle]_vars


(* The tiering specification: two series get samples at two timestamps,    *)
(* the clock advances and tiering passes run.                               *)
TierIDs == {"metric1", "metric2"}

TierTimestamps == {0, 1}

DoAddPointT ==
    \E id \in TierIDs, timestamp \in TierTimestamps : AddPoint(id, NoLabels, timestamp, 1)

InitTiering == Init /\ maxSeries = 2 /\ maxPointsPerSeries = 2

NextTiering == DoAddPointT \/ DoPerformTiering \/ Tick

SpecTiering == InitTiering /\ [][NextTiering]_vars


(* The retention specification: samples of one series enter the hot store, *)
(* the clock advances, and tiering and cleanup passes run in any order.     *)
DoPerformCleanup ==
    \E hotRetention \in Ages, warmRetention \in Ages :
        PerformCleanup(hotRetention, warmRetention)

NextRetention == DoAddPointE \/ DoPerformTiering \/ DoPerformCleanup \/ Tick

SpecRetention == InitDepth /\ [][NextRetention]_vars


(* The repeated-tiering specification: one series, tiering passes and hot   *)
(* cleanup in any order; warm files are never old enough to expire.         *)
DoAddPointR ==
    \E id \in DepthIDs, timestamp \in TierTimestamps : AddPoint(id, NoLabels, timestamp, 1)

DoPerformCleanupHot == \E hotRetention \in Ages : PerformCleanup(hotRetention, MaxNow)

InitRepeat == Init /\ maxSeries = 1 /\ maxPointsPerSeries = 2

NextRepeat == DoAddPointR \/ DoPerformTiering \/ DoPerformCleanupHot \/ Tick

SpecRepeat == InitRepeat /\ [][NextRepeat]_vars


(* The crash specification: blocks are written to the file of one series,  *)
(* a write is cut short by a crash, and a new store scans the directory.    *)
DoWriteIntact ==
    \E id \in WarmIDs, points \in WarmPointLists :
        /\ ~IsTorn(id)
        /\ DOMAIN files = DOMAIN disk
        /\ WriteSeriesData(id, NoLabels, points)

DoTornWrite ==
    \E id \in WarmIDs, points \in WarmPointLists,
       have \in 1..(HeaderSize + CompressedLen([points |-> <<>>]) + MaxBlockLen) :
        TornWrite(id, NoLabels, points, have)

NextCrash == DoWriteIntact \/ DoTornWrite \/ LoadExistingFiles

SpecCrash == InitWarm /\ [][NextCrash]_vars


(* The compaction specification: one-sample blocks pile up in the file of   *)
(* one series past the compaction threshold, and Compact runs.              *)
DoWriteSmallBlock ==
    \E id \in WarmIDs :
        WriteSeriesDataUpTo(MaxCompactBlocks, id, NoLabels, <<DataPoint(0, 1)>>)

NextCompact == DoWriteSmallBlock \/ Compact

SpecCompact == InitWarm /\ [][NextCompact]_vars


(* The expiry specification: one-sample blocks are written to the files of  *)
(* two series, the clock advances and CleanupExpired runs.                  *)
ExpireTimestamps == {0, 1}

DoWriteExpiring ==
    \E id \in TierIDs, timestamp \in ExpireTimestamps :
        WriteSeriesData(id, NoLabels, <<DataPoint(timestamp, 1)>>)

DoCleanupExpired == \E retention \in Ages : CleanupExpired(retention)

NextExpire == DoWriteExpiring \/ DoCleanupExpired \/ Tick

SpecExpire == InitWarm /\ [][NextExpire]_vars

(* The locking specification: goroutines start operations of the stores,   *)
(* the engine and the stream processor and make their lock calls one at a   *)
(* time, in any interleaving.                                               *)
DoGoCall == \E g \in LockGoroutines : GoCall(g)

DoGoStep == \E g \in LockGoroutines : GoStep(g)

NextLocks == DoGoCall \/ DoGoStep

SpecLocks == InitWarm /\ [][NextLocks]_vars

(* The forecasting specification: the engine is trained on short histories  *)
(* and asked for forecasts while the clock advances.                        *)
ForecastValues == {1, 2}

ForecastPoints == {DataPoint(timestamp, value) : timestamp \in TierTimestamps, value \in ForecastValues}

ForecastData == UNION {[1..n -> ForecastPoints] : n \in 0..MaxForecastData}

InitForecast ==
    /\ InitStore
    /\ maxSeries = 1
    /\ maxPointsPerSeries = 1
    /\ NewStreamProcessor(1, 1)
    /\ detector = NewDetector("zscore", 2, 1)
    /\ adding = NoAdding
    /\ bg = NoWorkers
    /\ lk = NoLocks
    /\ \E cacheTimeout \in 0..MaxCacheTimeout : fe = NewForecastEngine(cacheTimeout)

DoTrainModels == \E data \in ForecastData : TrainModels(data)

DoForecast == \E horizon \in 0..MaxHorizon : Forecast(horizon)

NextForecast == DoTrainModels \/ DoForecast \/ Tick

SpecForecast == InitForecast /\ [][NextForecast]_vars

(* The shutdown specification: samples enter one hot series, the clock     *)
(* advances, the engine is started and stopped once and its workers make    *)
(* their passes.  A worker that selects with its stop channel closed takes  *)
(* the stop case eventually, as the select of Go chooses at random among    *)
(* the ready cases.                                                         *)
DoAddPointS == AddPoint("metric1", NoLabels, 0, 1)

\* The data directory an earlier run left behind: empty, or one file with
\* one block.
OldDirectories ==
    {[id \in {} |-> [blocks |-> <<>>, modTime |-> 0]],
     [id \in {"metric1"} |->
         [blocks |-> <<WriteDataBlockBytes(WarmBlock(id, NoLabels, <<DataPoint(0, 1)>>))>>,
          modTime |-> 0]]}

InitStop ==
    /\ series = [id \in {} |-> NewSeries(id, NoLabels, 0)]
    /\ totalPoints = 0
    /\ maxSeries = 1
    /\ maxPointsPerSeries = 1
    /\ now = 0
    /\ lastOp = NoCall
    /\ held = NoResult
    /\ disk \in OldDirectories
    /\ \E enabled \in BOOLEAN : bg = NewStorageEngine(enabled)
    /\ files = [id \in (IF bg.tieringEnabled THEN DOMAIN disk ELSE {}) |-> LoadFile(id)]
    /\ NewStreamProcessor(1, 1)
    /\ detector = NewDetector("zscore", 2, 1)
    /\ adding = NoAdding
    /\ lk = NoLocks
    /\ fe = NewForecastEngine(DefaultCacheTimeout)

DoWorkerTick == \E name \in WorkerNames : WorkerTick(name)

DoWorkerExit == \E name \in WorkerNames : WorkerExit(name)

StopSteps ==
    \/ EngineStopCloseTiering
    \/ EngineStopWaitTiering
    \/ EngineStopCloseCleanup
    \/ EngineStopReturn

NextStop ==
    \/ DoAddPointS
    \/ Tick
    \/ EngineStart
    \/ DoWorkerTick
    \/ TieringWorkerPass
    \/ TieringWorkerPassFails
    \/ CleanupWorkerPass
    \/ CleanupWorkerPassFails
    \/ DoWorkerExit
    \/ EngineStopCloseTiering
    \/ EngineStopWaitTiering
    \/ EngineStopCloseCleanup
    \/ EngineStopReturn

SpecStop ==
    /\ InitStop
    /\ [][NextStop]_vars
    /\ WF_vars(TieringWorkerPass \/ TieringWorkerPassFails)
    /\ WF_vars(CleanupWorkerPass \/ CleanupWorkerPassFails)
    /\ SF_vars(WorkerExit("tieringWorker"))
    /\ SF_vars(WorkerExit("cleanupWorker"))
    /\ WF_vars(StopSteps)

----------------------------------------------------------------------------
(* Properties *)

PointSet(points) == {points[i] : i \in 1..Len(points)}

TotalSize == SumOver(DOMAIN series, [id \in DOMAIN series |-> Size(series[id])])

LastAdd == lastOp.op = "AddPoint"
LastAddOK == LastAdd /\ ~lastOp.err

\* C1: the points of every series are strictly increasing by timestamp, so no
\* two points of a series share a timestamp.
C1_StrictlyOrdered ==
    \A id \in DOMAIN series :
        \A i, j \in 1..Len(series[id].Points) :
            i < j => series[id].Points[i].Timestamp < series[id].Points[j].Timestamp

\* A series holding several points received a point older than its newest one.
C1_Witness ==
    /\ LastAddOK
    /\ Len(series[lastOp.id].Points) >= 2
    /\ lastOp.ts < series[lastOp.id].Points[Len(series[lastOp.id].Points)].Timestamp

\* C2: GetTotalPoints equals the sum of Size() over all series in the store.
C2_CounterConsistency == GetTotalPoints = TotalSize

\* C3: AddPoint with a timestamp already in the series replaces that sample's
\* value and leaves the series size and every other sample unchanged, for
\* every series size from 1 up to and including max_points_per_series.
C3_DuplicateReplaces ==
    [][ (/\ lastOp'.op = "AddPoint"
         /\ lastOp'.id \in DOMAIN series
         /\ HasTimestamp(series[lastOp'.id].Points, lastOp'.ts))
        => LET old == series[lastOp'.id].Points
               new == series'[lastOp'.id].Points
           IN  /\ ~lastOp'.err
               /\ Len(new) = Len(old)
               /\ \A i \in 1..Len(old) :
                      new[i] = IF old[i].Timestamp = lastOp'.ts
                               THEN DataPoint(lastOp'.ts, lastOp'.value)
                               ELSE old[i] ]_vars

\* C4: every series holds at most max_points_per_series points.
C4_DepthCap ==
    \A id \in DOMAIN series : Size(series[id]) <= maxPointsPerSeries

\* A series at the cap received a point and an eviction took place.
C4_Witness ==
    /\ LastAddOK
    /\ lastOp.atCap
    /\ Size(series[lastOp.id]) = maxPointsPerSeries

\* C5: AddPoint with a new timestamp on a series whose size equals
\* max_points_per_series removes the sample with the smallest timestamp, the
\* new sample is present afterwards, the size stays at the cap and
\* total_points is unchanged.
C5_EvictOldest ==
    [][ (/\ lastOp'.op = "AddPoint"
         /\ lastOp'.id \in DOMAIN series
         /\ Size(series[lastOp'.id]) = maxPointsPerSeries
         /\ ~HasTimestamp(series[lastOp'.id].Points, lastOp'.ts))
        => LET old == series[lastOp'.id].Points
               new == series'[lastOp'.id].Points
               oldest == CHOOSE p \in PointSet(old) :
                             \A q \in PointSet(old) : p.Timestamp <= q.Timestamp
           IN  /\ ~lastOp'.err
               /\ PointSet(new) = (PointSet(old) \ {oldest})
                                     \cup {DataPoint(lastOp'.ts, lastOp'.value)}
               /\ Len(new) = maxPointsPerSeries
               /\ totalPoints' = totalPoints ]_vars

\* A new timestamp arrived at a series that was at a cap of two or more.
C5_Witness ==
    /\ LastAddOK
    /\ lastOp.atCap
    /\ ~lastOp.dup
    /\ maxPointsPerSeries >= 2
    /\ Size(series[lastOp.id]) = maxPointsPerSeries

\* C6: the number of series held by the store is at most max_series.
C6_CardinalityCap == GetSeriesCount <= maxSeries

\* The store filled up to max_series by creating a series.
C6_Witness ==
    /\ LastAddOK
    /\ GetSeriesCount = maxSeries
    /\ maxSeries >= 2
    /\ Size(series[lastOp.id]) = 1

\* C7: AddPoint for an absent id while the store holds max_series series
\* returns an error and leaves the series map, every series' points and
\* total_points unchanged; AddPoint for an id already present still succeeds.
C7_SeriesLimitError ==
    [][ lastOp'.op = "AddPoint"
        => /\ (lastOp'.id \notin DOMAIN series /\ GetSeriesCount >= maxSeries)
                  => (lastOp'.err /\ series' = series /\ totalPoints' = totalPoints)
           /\ lastOp'.id \in DOMAIN series => ~lastOp'.err ]_vars

\* A call for an absent id was rejected by a store that holds points.
C7_Witness ==
    /\ LastAdd
    /\ lastOp.err
    /\ lastOp.id \notin DOMAIN series
    /\ GetSeriesCount = maxSeries
    /\ totalPoints > 0

\* The samples of a point list with start <= timestamp <= end, in list order.
RECURSIVE InWindow(_, _, _)
InWindow(points, start, end) ==
    IF points = <<>> THEN <<>>
    ELSE (IF start <= Head(points).Timestamp /\ Head(points).Timestamp <= end
          THEN <<Head(points)>> ELSE <<>>) \o InWindow(Tail(points), start, end)

\* C8: GetRange(start, end) returns, in ascending timestamp order, exactly the
\* samples with start <= t <= end, as a copy that later AddPoint calls do not
\* change; with start > end or no sample in the interval the result is empty.
C8_GetRangeInclusive ==
    [][ /\ lastOp'.op = "GetRange"
            => /\ Elements(held)' =
                      InWindow(series'[lastOp'.id].Points, lastOp'.start, lastOp'.end)
               /\ \A i, j \in 1..Len(Elements(held)') :
                      i < j => Elements(held)'[i].Timestamp < Elements(held)'[j].Timestamp
               /\ lastOp'.start > lastOp'.end => Elements(held)' = <<>>
        /\ lastOp'.op = "AddPoint" => Elements(held)' = Elements(held) ]_vars

\* A range query returned several samples, among them the ones at both
\* bounds of the window.
C8_Witness ==
    /\ lastOp.op = "GetRange"
    /\ Len(held.pts) >= 2
    /\ held.pts[1].Timestamp = lastOp.start
    /\ held.pts[Len(held.pts)].Timestamp = lastOp.end

\* C9: GetSeriesByLabels(filters) returns exactly the series whose label map
\* contains every (key, value) pair of filters; a series that lacks a filter
\* key never matches, whatever the filter value (including the empty string),
\* and an empty filter map returns all series.
C9_LabelFilter ==
    lastOp.op = "GetSeriesByLabels"
        => /\ lastOp.ret =
                  {id \in DOMAIN series :
                      \A key \in DOMAIN lastOp.filters :
                          /\ key \in DOMAIN series[id].Labels
                          /\ series[id].Labels[key] = lastOp.filters[key]}
           /\ lastOp.filters = NoLabels => lastOp.ret = DOMAIN series

\* C10: CleanupStale(max_age) removes exactly the series whose last_seen is
\* strictly more than max_age before the current time, leaves every other
\* series untouched, decreases total_points by the sizes of the removed
\* series and returns the number of series removed.
C10_CleanupStale ==
    [][ lastOp'.op = "CleanupStale"
        => LET removed == {id \in DOMAIN series : now - series[id].LastSeen > lastOp'.maxAge}
           IN  /\ DOMAIN series' = DOMAIN series \ removed
               /\ \A id \in DOMAIN series' : series'[id] = series[id]
               /\ totalPoints' = totalPoints
                      - SumOver(removed, [id \in removed |-> Len(series[id].Points)])
               /\ lastOp'.ret = Cardinality(removed) ]_vars

\* A cleanup removed a series and kept one whose age equals max_age.
C10_Witness ==
    /\ lastOp.op = "CleanupStale"
    /\ lastOp.ret >= 1
    /\ \E id \in DOMAIN series :
           /\ now - series[id].LastSeen = lastOp.maxAge
           /\ Size(series[id]) >= 1
    /\ totalPoints >= 1

----------------------------------------------------------------------------
(* Warm storage *)

LastWrite == lastOp.op = "WriteSeriesData"

\* The samples stored in the blocks of a series' file.
StoredPoints(seriesID) ==
    UNION {{DiskBlocks(seriesID)[k].payload.points[i] :
               i \in 1..Len(DiskBlocks(seriesID)[k].payload.points)} :
           k \in 1..Len(DiskBlocks(seriesID))}

Returned(r) == {r.pts[j] : j \in 1..Len(r.pts)}

ReadBack(seriesID, points) ==
    ReadSeriesRange(seriesID, points[1].Timestamp, points[Len(points)].Timestamp)

\* C13 (as stated): after WriteSeriesData(id, labels, points) with a non-empty
\* ascending list, ReadSeriesRange(id, first timestamp, last timestamp) on the
\* same store returns exactly the written points.
C13_ReadBackAlways ==
    LastWrite =>
        LET r == ReadBack(lastOp.id, lastOp.points)
        IN  ~r.err /\ r.pts = lastOp.points

\* C13 (amended): when the written block is the only block of the series'
\* file, reading back its full extent returns exactly the written points, with
\* exact timestamps and values, in ascending order.
C13_ReadBackFirstBlock ==
    (LastWrite /\ Len(DiskBlocks(lastOp.id)) = 1) =>
        LET r == ReadBack(lastOp.id, lastOp.points)
        IN  ~r.err /\ r.pts = lastOp.points

\* A first block of two points, one of them off the millisecond, was written.
C13_Witness ==
    /\ LastWrite
    /\ Len(DiskBlocks(lastOp.id)) = 1
    /\ Len(lastOp.points) = 2
    /\ \E i \in 1..2 : TimeFromMilli(UnixMilli(lastOp.points[i].Timestamp))
                          # lastOp.points[i].Timestamp

\* C14: ReadSeriesRange(id, start, end) returns every stored sample of the
\* series with start <= timestamp <= end, also those of a block whose
\* start_time is earlier than start.
C14_ReadRangeComplete ==
    \A id \in DOMAIN files : \A start \in WarmTimestamps, end \in WarmTimestamps :
        start <= end =>
            LET r == ReadSeriesRange(id, start, end)
            IN  /\ ~r.err
                /\ \A p \in StoredPoints(id) :
                      (start <= p.Timestamp /\ p.Timestamp <= end) => p \in Returned(r)

\* C15: after closing the store and constructing a new one over the same
\* directory, every point of every block is returned by ReadSeriesRange over
\* that block's full time extent.
C15_ReopenRetrievable ==
    lastOp.op = "Reopen" =>
        \A id \in DOMAIN disk : \A k \in 1..Len(disk[id].blocks) :
            LET block == disk[id].blocks[k].payload
                r == ReadSeriesRange(id, block.start_time, block.end_time)
            IN  /\ ~r.err
                /\ \A i \in 1..Len(block.points) : block.points[i] \in Returned(r)

\* C16: in every state of a WarmFile the index is sorted by timestamp, and
\* each entry's offset is the position of a block header, its length that
\* block's payload length, offset + 12 + length <= file size, and its
\* timestamp that block's start_time truncated to milliseconds.
C16_IndexSound ==
    \A id \in DOMAIN files :
        LET entries == files[id].IndexEntries
            blocks == DiskBlocks(id)
        IN  /\ \A i \in 1..Len(entries) - 1 : entries[i].Timestamp <= entries[i + 1].Timestamp
            /\ \A i \in 1..Len(entries) :
                  /\ entries[i].Offset + HeaderSize + entries[i].Length <= files[id].FileSize
                  /\ \E k \in 1..Len(blocks) :
                        /\ BlockPos(blocks, k) = entries[i].Offset
                        /\ blocks[k].length = entries[i].Length
                        /\ entries[i].Timestamp
                              = TimeFromMilli(UnixMilli(blocks[k].payload.start_time))

----------------------------------------------------------------------------
(* Storage engine *)

InRange(p, start, end) == start <= p.Timestamp /\ p.Timestamp <= end

HeldHot(seriesID) ==
    IF seriesID \in DOMAIN series
    THEN {series[seriesID].Points[i] : i \in 1..Len(series[seriesID].Points)}
    ELSE {}

\* C11: over a window in which both the hot series and the warm file hold
\* samples, StorageEngine.GetRange returns a strictly ascending sequence with
\* one sample per timestamp held, and at a timestamp held by both tiers the
\* value returned is the hot tier's.
C11_HotWins ==
    \A id \in DOMAIN series : \A start \in Timestamps, end \in Timestamps :
        LET r == EngineGetRange(id, start, end)
            hot == {p \in HeldHot(id) : InRange(p, start, end)}
            warm == {p \in StoredPoints(id) : InRange(p, start, end)}
        IN  (start <= end /\ hot # {} /\ warm # {}) =>
                /\ ~r.err
                /\ \A i \in 1..Len(r.pts) - 1 : r.pts[i].Timestamp < r.pts[i + 1].Timestamp
                /\ \A p \in hot :
                      (\E q \in warm : q.Timestamp = p.Timestamp) => p \in Returned(r)

\* C12: a sample (T, V) with s <= T <= e is in the result of
\* StorageEngine.GetRange(id, s, e) whether it is held only by the hot
\* series, only by a warm block of any start_time, or by both.
C12_TierIndependent ==
    \A id \in DOMAIN series \cup DOMAIN files :
        \A start \in Timestamps, end \in Timestamps :
            LET r == EngineGetRange(id, start, end)
                held_ == HeldHot(id) \cup StoredPoints(id)
            IN  start <= end =>
                    \A p \in held_ :
                        (/\ InRange(p, start, end)
                         /\ \A q \in held_ : q.Timestamp = p.Timestamp => q = p)
                        => (~r.err /\ p \in Returned(r))

----------------------------------------------------------------------------
(* Ingestion *)

\* C19: ValidateMetric rejects every metric whose value is NaN, +Inf, -Inf
\* or larger in absolute value than max_value_range, and its value check
\* accepts every finite value of absolute value at most max_value_range.
C19_RejectsNonFinite ==
    lastOp.op = "ValidateMetric" =>
        LET v == lastOp.metric.Value
            max == lastOp.dv.maxValueRange.n
            bad == v.k # "fin" \/ v.n > max \/ v.n < -max
        IN  /\ bad => lastOp.err
            /\ ~bad => ~ValueOutOfRange(lastOp.dv, v)

\* C17: the lifecycle stopped -> running -> stopped may be repeated: no Stop
\* panics, and whenever Start has returned and the processor is running its
\* flush routine is alive to flush at every flush_interval.
C17_RestartLifecycle ==
    /\ ~panicked
    /\ (isRunning /\ procs[Controller].pc = "idle") => procs[Flusher].pc # "done"

\* C18: every IngestMetric call that returns an error increments the error
\* counter and leaves the buffer and the ingested counter unchanged, and no
\* ingestion call panics.
C18_ErrorsCounted ==
    [][(lastOp' # lastOp /\ lastOp'.op = "IngestMetric" /\ lastOp'.err) =>
          /\ stats'.TotalErrors = stats.TotalErrors + 1
          /\ stats'.TotalIngested = stats.TotalIngested
          /\ dataBuffer' = dataBuffer
          /\ panicked' = panicked]_vars

\* C20: in every reachable state the length of the ingestion buffer is at
\* most buffer_capacity.
C20_BufferBounded == Len(dataBuffer) <= bufferSize

\* The processor is stopped and nothing is in progress: Stop has returned,
\* the flush routine is gone and no IngestMetric call is under way.
Quiescent ==
    /\ ~panicked
    /\ ~isRunning
    /\ procs[Controller].pc = "idle"
    /\ procs[Flusher].pc = "done"
    /\ \A g \in Ingesters : procs[g].pc = "idle"

\* C21: once Stop has returned (and every IngestMetric call that ran
\* concurrently with it has returned), every successfully ingested metric
\* has been handed to the storage writer: the buffer is empty and
\* ingested = processed + store-write errors.
C21_StopDrains ==
    Quiescent =>
        /\ dataBuffer = <<>>
        /\ stats.TotalIngested = Len(written)

Invalid(metric) == ValidateMetric(NewDataValidator, metric, now)

NumInvalid(items) == Cardinality({i \in 1..Len(items) : Invalid(items[i])})

NumValid(items) == Len(items) - NumInvalid(items)

\* C22 (as stated): IngestBatch returns success, every invalid item of the
\* batch is counted as an error and every valid item is buffered and counted
\* as ingested, whatever items failed before it.
C22_BatchAllItems ==
    lastOp.op = "IngestBatch" =>
        /\ ~lastOp.err
        /\ lastOp.errors = NumInvalid(lastOp.items)
        /\ lastOp.ingested = NumValid(lastOp.items)

\* C22 (amended): IngestBatch returns success and every invalid item is
\* counted as an error; every valid item is buffered and counted as ingested
\* when the processor was running at each of them, whatever items failed
\* before it.
C22_BatchWhileRunning ==
    lastOp.op = "IngestBatch" =>
        /\ ~lastOp.err
        /\ lastOp.errors = NumInvalid(lastOp.items)
        /\ lastOp.running => lastOp.ingested = NumValid(lastOp.items)

\* A batch with an invalid item before a valid one was ingested while the
\* processor was running.
C22_Witness ==
    /\ lastOp.op = "IngestBatch"
    /\ lastOp.running
    /\ Len(lastOp.items) = 2
    /\ Invalid(lastOp.items[1])
    /\ ~Invalid(lastOp.items[2])
    /\ lastOp.ingested = 1

\* C23: when the warm read fails during StorageEngine.GetRange, the call
\* returns an error together with the hot tier's points for the window.
C23_HotOnlyOnWarmError ==
    \A id \in DOMAIN series : \A start \in Timestamps, end \in Timestamps :
        (start <= end /\ ReadSeriesRange(id, start, end).err) =>
            LET r == EngineGetRange(id, start, end)
            IN  r.err /\ r.pts = HotRange(id, start, end)

----------------------------------------------------------------------------
(* Anomaly detector properties *)

\* C24: while the ring holds fewer values than the detector's minimum, Detect
\* returns is_anomaly = false and score = 0 and appends the value to the
\* ring, so an untrained detector leaves warm-up after that many calls.
C24_WarmUpAppends ==
    [][(lastOp'.op = "Detect" /\ lastOp'.warmUp) =>
          /\ ~lastOp'.result.IsAnomaly
          /\ lastOp'.result.ScoreIsZero
          /\ detector'.values =
                SlideWindow(lastOp'.before, lastOp'.value, detector.windowSize)]_vars

\* C25: the ring never holds more than window_size values; a Detect on a full
\* ring drops the oldest value and keeps the newest; Train with n > 0 points
\* keeps the most recent min(window_size, n); Train with no points fails and
\* leaves the ring unchanged.
C25_RingBounded ==
    [][/\ lastOp'.op \in {"Train", "Detect"} =>
            Len(detector'.values) <= detector'.windowSize
       /\ (lastOp'.op = "Detect" /\ Len(lastOp'.before) = detector.windowSize) =>
            detector'.values = Append(Tail(lastOp'.before), lastOp'.value)
       /\ (lastOp'.op = "Train" /\ lastOp'.points # <<>>) =>
            /\ ~lastOp'.err
            /\ detector'.values = KeepRecent(lastOp'.points, detector.windowSize)
            /\ Len(detector'.values) = IF Len(lastOp'.points) < detector.windowSize
                                       THEN Len(lastOp'.points) ELSE detector.windowSize
       /\ (lastOp'.op = "Train" /\ lastOp'.points = <<>>) =>
            lastOp'.err /\ detector'.values = lastOp'.before]_vars

----------------------------------------------------------------------------
(* Hot store: freshness of a written series *)

\* C26: every AddPoint that reaches the series, inserting or overwriting,
\* sets last_seen to the time of the call, so a CleanupStale that follows a
\* write with no time passing in between does not remove the written series.
C26_WriteRefreshesLastSeen ==
    [][/\ (lastOp'.op = "AddPoint" /\ ~lastOp'.err) =>
              series'[lastOp'.id].LastSeen = now'
       /\ (lastOp.op = "AddPoint" /\ ~lastOp.err /\ lastOp'.op = "CleanupStale") =>
              lastOp.id \in DOMAIN series']_vars

\* C27: a goroutine reading a series through its handle while HotStorage.AddPoint
\* runs on that series sees the series as it was before the AddPoint or as
\* it is after it, never the state between eviction and insertion.
C27_ReadSeesBeforeOrAfter ==
    (lastOp.op = "Read" /\ lastOp.during) => lastOp.saw \in {lastOp.before, lastOp.after}

----------------------------------------------------------------------------
(* Flushing *)

\* The metrics that left the caller's hands: those handed to the storage
\* writer, those in the buffer and those in a batch being processed.
RECURSIVE InFlight(_)
InFlight(ps) ==
    IF ps = {} THEN <<>>
    ELSE LET p == CHOOSE q \in ps : TRUE
         IN  procs[p].batch \o InFlight(ps \ {p})

Accounted == written \o dataBuffer \o InFlight(Goroutines)

Occurrences(s, m) == Cardinality({i \in 1..Len(s) : s[i] = m})

\* C28: with size-triggered, timer and Stop flushes running concurrently, no
\* buffered metric is handed to the storage writer twice and none is dropped
\* by a flush: every appended metric is, exactly once, in the writer's calls,
\* in the buffer or in the batch a flush is processing.
C28_FlushExactlyOnce ==
    /\ Len(Accounted) = stats.TotalIngested
    /\ \A i \in 1..Len(Accounted) : Occurrences(Accounted, Accounted[i]) = 1
    /\ \A i \in 1..Len(written) : Occurrences(written, written[i]) = 1

\* Two flushes hold a batch at the same time and a metric has been written.
C28_Witness ==
    /\ \E p \in Goroutines, q \in Goroutines :
          p # q /\ procs[p].pc = "pb" /\ procs[q].pc = "pb"
    /\ Len(written) > 0
    /\ stopChan = "closed"

\* The step in which a caller's IngestMetric returns from the flush it
\* started because its append made the buffer reach batch_size.
ReturnsFromBatchFlush(g) ==
    /\ procs[g].pc \in {"fb", "pb"}
    /\ procs[g].next = "return"
    /\ procs'[g].pc = "idle"

\* C29: in a running processor with one ingesting caller, when an
\* IngestMetric call made the buffer reach batch_size, then at its return the
\* buffer is empty, every ingested metric has been handed to the storage
\* writer (processed + store-write errors = ingested) and a batch has been
\* counted.
C29_BatchFlushedOnReturn ==
    [][\A g \in FlushCallers :
          (ReturnsFromBatchFlush(g) /\ isRunning') =>
              /\ dataBuffer' = <<>>
              /\ Len(written') = stats'.TotalIngested
              /\ stats'.BatchesProcessed > 0]_vars

\* The series the hot store holds once the storage writer's calls so far
\* have been applied in the order they were made.
RECURSIVE ApplyWrites(_, _)
ApplyWrites(s, log) ==
    IF log = <<>> THEN s
    ELSE ApplyWrites(SeriesAddPoint(s, Head(log).Timestamp, Head(log).Value, now), Tail(log))

\* Every ingested metric has been handed to the storage writer and no call
\* or flush is under way.
AllFlushed ==
    /\ ~panicked
    /\ Accounted = written
    /\ Len(written) = stats.TotalIngested
    /\ \A p \in Goroutines : procs[p].pc \in {"idle", "select", "done"}

\* C30: one caller ingests v1 and then v2 for the same series and timestamp
\* while the flush routine and the size-triggered flushes are active; once
\* all flushes have completed the hot store holds the value ingested last.
C30_LastIngestedWins ==
    (AllFlushed /\ stats.TotalIngested >= 2) =>
        LET s == ApplyWrites(NewSeries("cpu.usage", NoLabels, now), written)
        IN  /\ Len(s.Points) = 1
            /\ \A i \in 1..Len(written) : ~FloatGt(written[i].Value, s.Points[1].Value)

----------------------------------------------------------------------------
(* Tiering and cleanup *)

\* The last block of a series' warm file, decoded.
LastBlock(blocks) == UnmarshalBlock(blocks[Len(blocks)].payload)

C32_CleanupAfterTiering ==
    [][lastOp'.op = "performCleanup" =>
          \A id \in DOMAIN series \ DOMAIN series' :
              \A i \in 1..Len(series[id].Points) :
                  series[id].Points[i] \in StoredPoints(id)]_vars

\* Every block of the series' warm file is the same block: the series was
\* tiered one or more times without a change in between.
TieredUnchanged(id) ==
    /\ id \in DOMAIN files
    /\ Len(DiskBlocks(id)) >= 1
    /\ \A k \in 1..Len(DiskBlocks(id)) : DiskBlocks(id)[k] = DiskBlocks(id)[1]
    /\ id \in DOMAIN series => series[id].Points = DiskBlocks(id)[1].payload.points

\* What GetRange returns when the series' warm file holds one copy of the
\* block only.
RangeTieredOnce(id, start, end) ==
    LET block == UnmarshalBlock(DiskBlocks(id)[1].payload)
        once == WriteDataBlockFile(NewWarmFile(id, now), block, now)
    IN  MergeTiers(HotRange(id, start, end),
                   ReadDataRange(once, <<WriteDataBlockBytes(block)>>, start, end))

\* C33: tiering an unchanged stale series k >= 1 times gives the same
\* GetRange result as tiering it once, while the series is in the hot store
\* and after cleanup has removed it: a sample held by several warm blocks or
\* by both tiers is returned once.
C33_TieringIdempotent ==
    \A id \in DOMAIN disk :
        TieredUnchanged(id) =>
            \A start \in Timestamps, end \in Timestamps :
                start <= end =>
                    LET r == EngineGetRange(id, start, end)
                    IN  /\ r = RangeTieredOnce(id, start, end)
                        /\ \A i \in 1..Len(r.pts), j \in 1..Len(r.pts) :
                              i # j => r.pts[i].Timestamp # r.pts[j].Timestamp

\* A series with two samples was tiered twice and then removed by cleanup.
C33_Witness ==
    /\ lastOp.op = "performCleanup"
    /\ \E id \in DOMAIN disk :
          /\ TieredUnchanged(id) /\ id \notin DOMAIN series
          /\ Len(DiskBlocks(id)) = 2 /\ Len(DiskBlocks(id)[1].payload.points) = 2

----------------------------------------------------------------------------
(* Startup scan, compaction and expiry of warm files *)

\* C34: when the startup scan meets a file that ends in a partial block, it
\* takes the partial block for the end of the file and indexes every complete
\* block before it, so that the file is loaded and its blocks stay readable;
\* the scan goes on over the other files and removes nothing.
C34_ScanKeepsCompleteBlocks ==
    [][lastOp'.op = "LoadExistingFiles" =>
          /\ disk' = disk
          /\ \A id \in DOMAIN disk :
                /\ id \in DOMAIN files'
                /\ Len(files'[id].IndexEntries) = Len(disk[id].blocks)
                /\ \A k \in 1..Len(disk[id].blocks) :
                      \E i \in 1..Len(files'[id].IndexEntries) :
                          /\ files'[id].IndexEntries[i].Length = disk[id].blocks[k].length
                          /\ files'[id].IndexEntries[i].Timestamp
                                = TimeFromMilli(disk[id].blocks[k].timestamp)]_vars

\* C35: Compact on a store holding a file with more than 100 index entries
\* coalesces that file's blocks into at most 100 with one sample per
\* timestamp, and ReadSeriesRange returns the same timestamps as before.
C35_CompactCoalesces ==
    [][lastOp'.op = "Compact" =>
          \A id \in DOMAIN files :
              Len(files[id].IndexEntries) > CompactionThreshold =>
                  /\ Len(files'[id].IndexEntries) <= CompactionThreshold
                  /\ Len(disk'[id].blocks) <= CompactionThreshold
                  /\ {p.Timestamp : p \in StoredPoints(id)'}
                        = {p.Timestamp : p \in StoredPoints(id)}]_vars

WorkerExited(worker) == worker.pc \in {"none", "done"} /\ worker.wg = 0

IsPass(op) == op.op \in {"performTiering", "performCleanup"}

C37_StopTerminates ==
    /\ [][/\ (bg'.stop = "returned" /\ bg.stop # "returned") =>
                /\ WorkerExited(bg'.tieringWorker)
                /\ WorkerExited(bg'.cleanupWorker)
          /\ bg.stop = "returned" =>
                /\ bg' = bg
                /\ ~IsPass(lastOp')
          /\ (IsPass(lastOp') /\ "err" \in DOMAIN lastOp') =>
                /\ "printed" \in DOMAIN lastOp'
                /\ \E name \in WorkerNames :
                      /\ bg[name].pc = "pass"
                      /\ bg'[name].pc = "select"
                      /\ bg'[name].wg = 1]_vars
    /\ (bg.stop # "idle") ~> (bg.stop = "returned")

\* Stop returned on a started engine whose directory holds a tiered block:
\* a pass ran before the workers were stopped.
C37_Witness ==
    /\ bg.stop = "returned"
    /\ bg.started
    /\ bg.tieringWorker.pc = "done"
    /\ bg.cleanupWorker.pc = "done"
    /\ DOMAIN disk # {}

\* C38: no goroutines wait for each other in a circle, and a goroutine that
\* asks for a lock holds none that comes after it: the store lock is asked
\* for before the series lock, the warm store lock before the warm file lock,
\* the buffer lock before the statistics lock.
LockOrder ==
    {<<"hs.mu", "series.mu">>, <<"ws.mu", "warmFile.mu">>, <<"bufferMutex", "stats.mu">>}

Asks(g) ==
    IF lk.at[g] # <<>> /\ Head(lk.at[g])[1] \in {"Lock", "RLock"}
    THEN {Head(lk.at[g])[2]} ELSE {}

RECURSIVE WaitsForWithin(_, _)
WaitsForWithin(g, steps) ==
    IF steps = 0 THEN {}
    ELSE WaitsFor(g) \cup UNION {WaitsForWithin(h, steps - 1) : h \in WaitsFor(g)}

C38_NoDeadlock ==
    /\ \A g \in LockGoroutines : g \notin WaitsForWithin(g, MaxGoroutines)
    /\ \A g \in LockGoroutines : \A pair \in LockOrder :
          pair[2] \in Holds(g) => pair[1] \notin Asks(g)

\* A tiering pass holds the engine lock, the warm store lock and the file
\* lock while another goroutine waits for the warm store lock.
C38_Witness ==
    \E g \in LockGoroutines, h \in LockGoroutines :
        /\ {"se.mu", "ws.mu", "warmFile.mu"} \subseteq Holds(g)
        /\ "ws.mu" \in Asks(h)
        /\ g \in WaitsFor(h)

\* C39: a Forecast that returns no error returns the predictions of the model
\* as the most recent successful TrainModels left it, and none for horizon 0.
C39_ForecastFromLatestTraining ==
    (lastOp.op = "Forecast" /\ ~lastOp.err) =>
        LET predictions == lastOp.result.Predictions
            fresh == LinearTrendForecast(fe.linear_trend, lastOp.horizon)
        IN  /\ fe.linear_trend.trained
            /\ Len(predictions) = lastOp.horizon
            /\ \A i \in 1..Len(predictions) :
                  fresh[i][2] # 0 => FloatEq(predictions[i], fresh[i])

====
